---- MODULE Spec2Model ----
(***************************************************************************)
(* A model of the event-driven dynamics kernel of DynamO:                  *)
(*   - the Dynamics registry (src/dynamics/dynamics.cpp), and              *)
(*   - the Newtonian Liouvillean's collision responses                     *)
(*     (src/dynamics/liouvillean/NewtonL.cpp).                             *)
(* Real numbers are exact rationals <<n, d>> extended with the IEEE        *)
(* specials the code can produce by dividing by zero: +Inf = <<1, 0>>,     *)
(* -Inf = <<-1, 0>> and NaN = <<0, 0>>.                                    *)
(***************************************************************************)
EXTENDS Integers, Sequences, FiniteSets, TLC

VARIABLES
  status,        \* Sim->status, the simulation status enum
  species,       \* Dynamics::species, in insertion order
  interactions,  \* Dynamics::interactions
  globals,       \* Dynamics::globals
  locals,        \* Dynamics::locals
  systems,       \* Dynamics::systems
  topology,      \* Dynamics::topology
  err,           \* the exception the last registry operation threw ("" = none)
  lastOp,        \* the last registry operation called
  initLog,       \* the initialise() calls made on owned objects, in call order
  N,             \* Sim->N, the number of particles (ids 0..N-1)
  particleList,  \* Sim->particleList: id -> [pos, vel, lastUpdate]
  mass,          \* the Species mass of each particle (0 = infinite)
  dSysTime,      \* Sim->dSysTime, the current absolute time
  pre,           \* particleList as it was when the last response was called
  call,          \* the last response routine called, with its arguments
  retVal,        \* the EventRecord(s) the last response returned
  accessLog,     \* the particle accesses of the last response, in order
  lastColl,      \* LNewtonian::lastCollParticle1/2 and lastAbsoluteClock
  dat,           \* the CPDData of the pair under test: rij, vij, r2, v2, rvdot, dt
  test,          \* the last event test called, its arguments and what it returned
  maxprob,       \* the maxprob accumulator the DSMCSpheresTest calls share
  found,         \* the last lookup of the registry: its key and the object returned
  hack,          \* the CSCellHack System: dt, growthRate, maxOrigDiam, ID
  cellDimensions, \* the cell widths the cellular scheduler holds
  streamed,      \* the calls of the last Dynamics::stream and the time each callee was told
  plate,         \* the oscillating plate's delta and t, as the arguments that rewrote them
  win            \* the CLGLWindow: its flags and times, and where simupdateTick stands

regVars == <<status, species, interactions, globals, locals, systems,
             topology, err, lastOp, initLog, N>>
collVars == <<particleList, mass, dSysTime, pre, call, retVal,
              accessLog, lastColl>>
testVars == <<dat, test, maxprob, found>>
sysVars == <<hack, cellDimensions, streamed, plate, win>>
vars == <<regVars, collVars, testVars, sysVars>>

----------------------------------------------------------------------------
(* Exact arithmetic standing for the code's double.                        *)

Abs(x) == IF x < 0 THEN -x ELSE x

Sgn(x) == IF x < 0 THEN -1 ELSE IF x > 0 THEN 1 ELSE 0

RECURSIVE GCD(_, _)
GCD(a, b) == IF b = 0 THEN a ELSE GCD(b, a % b)

\* the canonical form of n/d; d = 0 gives +Inf, -Inf or NaN
Norm(n, d) ==
  IF d = 0 THEN <<Sgn(n), 0>>
  ELSE LET g == GCD(Abs(n), Abs(d))
       IN  <<Sgn(d) * (n \div g), Abs(d) \div g>>

R(n) == <<n, 1>>
Frac(n, d) == Norm(n, d)
NaN == <<0, 0>>
IsNaN(a) == a = NaN
IsInf(a) == a[2] = 0 /\ a[1] # 0
IsFinite(a) == a[2] # 0

\* products and sums cancel common factors first, so that no intermediate
\* value is larger than the result needs
RMul(a, b) ==
  IF a[2] = 0 \/ b[2] = 0 THEN Norm(a[1] * b[1], a[2] * b[2])
  ELSE LET g1 == GCD(Abs(a[1]), b[2])
           g2 == GCD(Abs(b[1]), a[2])
       IN  <<(a[1] \div g1) * (b[1] \div g2), (a[2] \div g2) * (b[2] \div g1)>>
RInv(a) == IF a[1] < 0 THEN <<-a[2], -a[1]>> ELSE <<a[2], a[1]>>
RDiv(a, b) == RMul(a, RInv(b))
RAdd(a, b) ==
  IF IsInf(a) /\ IsInf(b) THEN (IF a = b THEN a ELSE NaN)
  ELSE IF a[2] = 0 \/ b[2] = 0
  THEN Norm(a[1] * b[2] + b[1] * a[2], a[2] * b[2])
  ELSE LET g == GCD(a[2], b[2])
       IN  Norm(a[1] * (b[2] \div g) + b[1] * (a[2] \div g),
                (a[2] \div g) * b[2])
RNeg(a) == <<-a[1], a[2]>>
RSub(a, b) == RAdd(a, RNeg(b))
\* IEEE comparisons: every comparison with a NaN is false
REq(a, b) == ~IsNaN(a) /\ ~IsNaN(b) /\ a = b
RLt(a, b) ==
  /\ ~IsNaN(a) /\ ~IsNaN(b)
  /\ IF IsInf(a) /\ IsInf(b) THEN a[1] < b[1]
     ELSE IF a[2] = 0 \/ b[2] = 0 THEN a[1] * b[2] < b[1] * a[2]
     ELSE LET g == GCD(a[2], b[2])
          IN  a[1] * (b[2] \div g) < b[1] * (a[2] \div g)
RIsZero(a) == REq(a, R(0))

\* Vector: three components (NDIM = 3)
Dims == 1..3
VZero == <<R(0), R(0), R(0)>>
VInt(x, y, z) == <<R(x), R(y), R(z)>>
VAdd(u, v) == [i \in Dims |-> RAdd(u[i], v[i])]
VSub(u, v) == [i \in Dims |-> RSub(u[i], v[i])]
VScale(u, s) == [i \in Dims |-> RMul(u[i], s)]
VDivS(u, s) == [i \in Dims |-> RDiv(u[i], s)]
Dot(u, v) == RAdd(RAdd(RMul(u[1], v[1]), RMul(u[2], v[2])), RMul(u[3], v[3]))
Nrm2(u) == Dot(u, u)
RNegV(u) == [i \in Dims |-> RNeg(u[i])]
VEq(u, v) == \A i \in Dims : REq(u[i], v[i])
VFinite(u) == \A i \in Dims : IsFinite(u[i])

----------------------------------------------------------------------------
(* The simulation status enum (Sim->status), in its order.                 *)

UNINITIALISED == 0
CONFIGURING == 1
INITIALISED == 2
RUNNING == 3

(* Bounds of the registry model.                                           *)

\* at most this many objects are owned by the registry, all collections together
MaxObjs == 3

Names == {"A", "B"}
SysNames == {"A", "SystemTicker"}
\* the particle numbers Sim->N tried
Ns == {1, 2}
\* particle-id ranges a Species may own (id 2 is never a particle)
Ranges == {{0}, {1}, {0, 1}, {1, 2}}

\* an Interaction: its name and the Species names isInteraction(species) accepts
InteractionObjs == [name : Names, claims : {{"A"}, {"A", "B"}}]
\* a Species as handed to addSpecies: no Interaction linked yet (intPtr 0 = NULL)
SpeciesObjs == [name : Names, range : Ranges, intPtr : {0}]
PluginObjs == [name : Names]
SystemObjs == [name : SysNames]

isSpecies(sp, part) == part \in sp.range
getCount(sp) == Cardinality(sp.range)
isInteraction(int, sp) == sp.name \in int.claims

NObjs == Len(species) + Len(interactions) + Len(globals) + Len(locals)
         + Len(systems) + Len(topology)

\* the six owned collections
Collections == <<species, interactions, globals, locals, systems, topology>>
Sizes == <<Len(species), Len(interactions), Len(globals), Len(locals),
           Len(systems), Len(topology)>>

----------------------------------------------------------------------------
(* Dynamics::add*: each operator gives the collection after the call and   *)
(* the exception thrown ("" when the call returns normally).               *)

\* the index of the first Interaction, in insertion order, for which
\* isInteraction(sp) holds; 0 when there is none
FirstInteraction(ints, sp) ==
  IF \E k \in 1..Len(ints) : isInteraction(ints[k], sp)
  THEN CHOOSE k \in 1..Len(ints) :
         /\ isInteraction(ints[k], sp)
         /\ \A j \in 1..(k - 1) : ~isInteraction(ints[j], sp)
  ELSE 0

addSpeciesNoGuard(st, spp, ints, sp) ==
  LET pushed == Append(spp, sp)
      k == FirstInteraction(ints, sp)
  IN  IF k # 0
      THEN [coll |-> [pushed EXCEPT ![Len(pushed)].intPtr = k], err |-> ""]
      ELSE [coll |-> pushed,
            err |-> "Could not find the interaction for the species"]

addSpecies(st, spp, ints, sp) ==
  IF st >= INITIALISED
  THEN [coll |-> spp,
        err |-> "Cannot add species after simulation initialisation"]
  ELSE LET pushed == Append(spp, sp)
           k == FirstInteraction(ints, sp)
       IN  IF k # 0
           THEN [coll |-> [pushed EXCEPT ![Len(pushed)].intPtr = k],
                 err |-> ""]
           ELSE [coll |-> pushed,
                 err |-> "Could not find the interaction for the species"]

addGlobal(st, coll, obj) ==
  IF st >= INITIALISED
  THEN [coll |-> coll,
        err |-> "Cannot add global events after simulation initialisation"]
  ELSE [coll |-> Append(coll, obj), err |-> ""]

addLocal(st, coll, obj) ==
  IF st >= INITIALISED
  THEN [coll |-> coll,
        err |-> "Cannot add local events after simulation initialisation"]
  ELSE [coll |-> Append(coll, obj), err |-> ""]

addSystem(st, coll, obj) ==
  IF st >= INITIALISED
  THEN [coll |-> coll,
        err |-> "Cannot add system events at this time, system is initialised"]
  ELSE [coll |-> Append(coll, obj), err |-> ""]

addStructure(st, coll, obj) ==
  IF st >= INITIALISED
  THEN [coll |-> coll,
        err |-> "Cannot add structure after simulation initialisation"]
  ELSE [coll |-> Append(coll, obj), err |-> ""]

addSystemTicker(st, coll) ==
  IF st >= INITIALISED
  THEN [coll |-> coll, err |-> "Cannot add the system ticker now"]
  ELSE IF \E k \in 1..Len(coll) : coll[k].name = "SystemTicker"
       THEN [coll |-> coll, err |-> "System Ticker already exists"]
       ELSE addSystem(st, coll, [name |-> "SystemTicker"])

\* no status test: the Interaction is pushed whatever the status
addInteraction(st, coll, obj) ==
  [coll |-> Append(coll, obj), err |-> ""]

----------------------------------------------------------------------------
(* Dynamics::initialise.                                                   *)

\* the particle loop: count is 1 when some Species owns the particle (the
\* scan breaks at the first), 0 when none does
SpeciesCount(spp, part) ==
  IF \E k \in 1..Len(spp) : isSpecies(spp[k], part) THEN 1 ELSE 0

RECURSIVE TotCount(_)
TotCount(spp) ==
  IF spp = <<>> THEN 0 ELSE getCount(Head(spp)) + TotCount(Tail(spp))

\* the exception of the Species validation ("" when it passes)
validateSpeciesNoTotal(spp, n) ==
  IF \E part \in 0..(n - 1) : SpeciesCount(spp, part) < 1
  THEN "Particle has no species"
  ELSE IF \E part \in 0..(n - 1) : SpeciesCount(spp, part) > 1
  THEN "Particle has more than one species"
  ELSE ""

validateSpecies(spp, n) ==
  IF \E part \in 0..(n - 1) : SpeciesCount(spp, part) < 1
  THEN "Particle has no species"
  ELSE IF \E part \in 0..(n - 1) : SpeciesCount(spp, part) > 1
  THEN "Particle has more than one species"
  ELSE IF TotCount(spp) < n
  THEN "The particle count according to the species definition is too low"
  ELSE IF TotCount(spp) > n
  THEN "The particle count according to the species definition is too high"
  ELSE ""

\* one log entry per initialise() call: the collection, the object's place in
\* it, and the ID argument (-1: initialise() takes none)
\* the same calls with ids that run from 1
InitCallsFromOne(kind, coll, withID) ==
  [k \in 1..Len(coll) |->
     [kind |-> kind, idx |-> k, id |-> IF withID THEN k ELSE -1]]

InitCalls(kind, coll, withID) ==
  [k \in 1..Len(coll) |->
     [kind |-> kind, idx |-> k, id |-> IF withID THEN k - 1 ELSE -1]]

initOrderGlobalsFirst(spp, ints, locs, globs, syss) ==
  InitCalls("Species", spp, FALSE)
  \o <<[kind |-> "Liouvillean", idx |-> 1, id |-> -1]>>
  \o InitCalls("Global", globs, TRUE)
  \o InitCalls("Interaction", ints, TRUE)
  \o InitCalls("Local", locs, TRUE)
  \o InitCalls("System", syss, TRUE)

\* the calls of a run of initialise() that passes the validation
initOrder(spp, ints, locs, globs, syss) ==
  InitCalls("Species", spp, FALSE)
  \o <<[kind |-> "Liouvillean", idx |-> 1, id |-> -1]>>
  \o InitCalls("Interaction", ints, TRUE)
  \o InitCalls("Local", locs, TRUE)
  \o InitCalls("Global", globs, TRUE)
  \o InitCalls("System", syss, TRUE)

initialise(spp, ints, locs, globs, syss, n) ==
  LET e == validateSpecies(spp, n)
  IN  IF e # ""
      THEN [log |-> InitCalls("Species", spp, FALSE), err |-> e]
      ELSE [log |-> initOrder(spp, ints, locs, globs, syss), err |-> ""]

----------------------------------------------------------------------------
(* The registry's operations as actions. The status itself is advanced by  *)
(* the simulation driver around Dynamics::initialise; the driver populates *)
(* the registry once it is CONFIGURING, and callers may go on calling add* *)
(* at any later status.                                                    *)

SimConfigure ==
  /\ status = UNINITIALISED
  /\ status' = CONFIGURING
  /\ lastOp' = "configure"
  /\ err' = ""
  /\ UNCHANGED <<species, interactions, globals, locals, systems, topology,
                 initLog, N>>
  /\ UNCHANGED <<collVars, testVars, sysVars>>

AddSpecies ==
  \E sp \in SpeciesObjs :
    /\ status >= CONFIGURING
    /\ NObjs < MaxObjs
    /\ LET r == addSpecies(status, species, interactions, sp)
       IN  species' = r.coll /\ err' = r.err
    /\ lastOp' = "addSpecies"
    /\ UNCHANGED <<status, interactions, globals, locals, systems, topology,
                   initLog, N>>
    /\ UNCHANGED <<collVars, testVars, sysVars>>

AddInteraction ==
  \E obj \in InteractionObjs :
    /\ status >= CONFIGURING
    /\ NObjs < MaxObjs
    /\ LET r == addInteraction(status, interactions, obj)
       IN  interactions' = r.coll /\ err' = r.err
    /\ lastOp' = "addInteraction"
    /\ UNCHANGED <<status, species, globals, locals, systems, topology,
                   initLog, N>>
    /\ UNCHANGED <<collVars, testVars, sysVars>>

AddGlobal ==
  \E obj \in PluginObjs :
    /\ status >= CONFIGURING
    /\ NObjs < MaxObjs
    /\ LET r == addGlobal(status, globals, obj)
       IN  globals' = r.coll /\ err' = r.err
    /\ lastOp' = "addGlobal"
    /\ UNCHANGED <<status, species, interactions, locals, systems, topology,
                   initLog, N>>
    /\ UNCHANGED <<collVars, testVars, sysVars>>

AddLocal ==
  \E obj \in PluginObjs :
    /\ status >= CONFIGURING
    /\ NObjs < MaxObjs
    /\ LET r == addLocal(status, locals, obj)
       IN  locals' = r.coll /\ err' = r.err
    /\ lastOp' = "addLocal"
    /\ UNCHANGED <<status, species, interactions, globals, systems, topology,
                   initLog, N>>
    /\ UNCHANGED <<collVars, testVars, sysVars>>

AddSystem ==
  \E obj \in SystemObjs :
    /\ status >= CONFIGURING
    /\ NObjs < MaxObjs
    /\ LET r == addSystem(status, systems, obj)
       IN  systems' = r.coll /\ err' = r.err
    /\ lastOp' = "addSystem"
    /\ UNCHANGED <<status, species, interactions, globals, locals, topology,
                   initLog, N>>
    /\ UNCHANGED <<collVars, testVars, sysVars>>

AddStructure ==
  \E obj \in PluginObjs :
    /\ status >= CONFIGURING
    /\ NObjs < MaxObjs
    /\ LET r == addStructure(status, topology, obj)
       IN  topology' = r.coll /\ err' = r.err
    /\ lastOp' = "addStructure"
    /\ UNCHANGED <<status, species, interactions, globals, locals, systems,
                   initLog, N>>
    /\ UNCHANGED <<collVars, testVars, sysVars>>

AddSystemTicker ==
  /\ status >= CONFIGURING
  /\ NObjs < MaxObjs
  /\ LET r == addSystemTicker(status, systems)
     IN  systems' = r.coll /\ err' = r.err
  /\ lastOp' = "addSystemTicker"
  /\ UNCHANGED <<status, species, interactions, globals, locals, topology,
                 initLog, N>>
  /\ UNCHANGED <<collVars, testVars, sysVars>>

\* the driver calls Dynamics::initialise once, before the status is
\* INITIALISED, and sets the status when the call returns without throwing
SimInitialise ==
  /\ status = CONFIGURING
  /\ LET r == initialise(species, interactions, locals, globals, systems, N)
     IN  /\ initLog' = r.log
         /\ err' = r.err
         /\ status' = IF r.err = "" THEN INITIALISED ELSE status
  /\ lastOp' = "initialise"
  /\ UNCHANGED <<species, interactions, globals, locals, systems, topology, N>>
  /\ UNCHANGED <<collVars, testVars, sysVars>>

SimRun ==
  /\ status = INITIALISED
  /\ status' = RUNNING
  /\ lastOp' = "run"
  /\ err' = ""
  /\ UNCHANGED <<species, interactions, globals, locals, systems, topology,
                 initLog, N>>
  /\ UNCHANGED <<collVars, testVars, sysVars>>

InitReg ==
  /\ status = UNINITIALISED
  /\ species = <<>> /\ interactions = <<>> /\ globals = <<>>
  /\ locals = <<>> /\ systems = <<>> /\ topology = <<>>
  /\ err = "" /\ lastOp = "none" /\ initLog = <<>>
  /\ N \in Ns

----------------------------------------------------------------------------
(* The Newtonian Liouvillean: particles, streaming and event records.      *)

\* sqrt of a double: exact where the root is rational, NaN below zero
\* the integer square root, by bisection: lo * lo <= n < hi * hi throughout
RECURSIVE ISqrtBetween(_, _, _)
ISqrtBetween(n, lo, hi) ==
  IF hi - lo <= 1 THEN lo
  ELSE LET mid == (lo + hi) \div 2
       IN  IF mid * mid <= n THEN ISqrtBetween(n, mid, hi)
           ELSE ISqrtBetween(n, lo, mid)
ISqrt(n) == ISqrtBetween(n, 0, 46341)
HasSqrt(a) ==
  IF a[2] = 0 THEN TRUE
  ELSE IF a[1] < 0 THEN TRUE
  ELSE ISqrt(a[1]) * ISqrt(a[1]) = a[1] /\ ISqrt(a[2]) * ISqrt(a[2]) = a[2]
RSqrt(a) ==
  IF IsNaN(a) \/ a[1] < 0 THEN NaN
  ELSE IF a[2] = 0 THEN a
  ELSE <<ISqrt(a[1]), ISqrt(a[2])>>

\* LNewtonian::streamParticle: position += velocity * dt
streamParticleAlsoVel(p, dt) ==
  [p EXCEPT !.pos = VAdd(p.pos, VScale(p.vel, dt)),
            !.vel = VAdd(p.vel, VScale(p.vel, dt))]

streamParticle(p, dt) ==
  [p EXCEPT !.pos = VAdd(p.pos, VScale(p.vel, dt))]

\* Liouvillean::updateParticle: stream the particle over the time it is
\* behind the current time, and mark it up to date
updateParticle(pl, t, id) ==
  [pl EXCEPT ![id] =
     [streamParticle(pl[id], R(t - pl[id].lastUpdate))
        EXCEPT !.lastUpdate = t]]

updateParticlePair(pl, t, i1, i2) ==
  updateParticle(updateParticle(pl, t, i1), t, i2)

isUpToDate(pl, t, id) == pl[id].lastUpdate = t

\* the boundary condition in force: no boundary (the null BC)
applyBC(pos, vel) == [pos |-> pos, vel |-> vel]

\* ParticleEventData(part, species, type): snapshots the velocity
ParticleEventData(pl, id, type) ==
  [id |-> id, oldVel |-> pl[id].vel, deltaKE |-> R(0), deltaU |-> R(0),
   type |-> type]

\* PairEventData(part1, part2, sp1, sp2, type)
PairEventData(pl, i1, i2, type) ==
  [type |-> type,
   rij |-> VSub(pl[i1].pos, pl[i2].pos),
   vijold |-> VSub(pl[i1].vel, pl[i2].vel),
   rvdot |-> R(0),
   dP |-> VZero,
   parts |-> <<ParticleEventData(pl, i1, type), ParticleEventData(pl, i2, type)>>]

\* one entry of the access log: what is done to which particle, and whether
\* the particle is at the current time when it is done
Access(kind, id, pl, t) ==
  [kind |-> kind, id |-> id, upToDate |-> isUpToDate(pl, t, id)]

\* 0.5 * mass * (v.nrm2() - oldVel.nrm2())
KEDeltaNoHalf(m, vnew, vold) == RMul(m, RSub(Nrm2(vnew), Nrm2(vold)))

KEDelta(m, vnew, vold) ==
  RMul(RMul(Frac(1, 2), m), RSub(Nrm2(vnew), Nrm2(vold)))

\* m1 * m2 / (m1 + m2)
ReducedMassNoSum(m1, m2) == RMul(m1, m2)

ReducedMass(m1, m2) == RDiv(RMul(m1, m2), RAdd(m1, m2))

\* rij * ((1 + e) * mu * rvdot / rij.nrm2())
ImpulseNoRestitution(rij, e, mu, rvdot) ==
  VScale(rij, RDiv(RMul(RMul(R(2), mu), rvdot), Nrm2(rij)))

Impulse(rij, e, mu, rvdot) ==
  VScale(rij, RDiv(RMul(RMul(RAdd(R(1), e), mu), rvdot), Nrm2(rij)))

\* pMass * rij * ((1 + e) * rvdot / rij.nrm2()): one side of infinite mass
WallImpulseReduced(pMass, rij, e, rvdot) ==
  VScale(VScale(rij, RDiv(pMass, R(2))),
         RDiv(RMul(RAdd(R(1), e), rvdot), Nrm2(rij)))

WallImpulse(pMass, rij, e, rvdot) ==
  VScale(VScale(rij, pMass), RDiv(RMul(RAdd(R(1), e), rvdot), Nrm2(rij)))

setVel(pl, id, v) == [pl EXCEPT ![id].vel = v]

\* the update every response opens with
SSC_noUpdate(pl, t, i1, i2) == pl

SSC_update(pl, t, i1, i2) == updateParticlePair(pl, t, i1, i2)

\* retVal.particleN_.setDeltaKE(0.5 * pNMass * (vel.nrm2() - oldVel.nrm2()))
setDeltaKE(part, pMass, vel) ==
  [part EXCEPT !.deltaKE = KEDelta(pMass, vel, part.oldVel)]

\* the two setDeltaKE calls that close every pair response
PairParts(rec, plB, i1, i2, p1Mass, p2Mass) ==
  <<setDeltaKE(rec.parts[1], p1Mass, plB[i1].vel),
    setDeltaKE(rec.parts[2], p2Mass, plB[i2].vel)>>

\* the accesses of a pair response, in program order: plU is the particle
\* list after the opening update, plA after the write to particle 1, plB
\* after the write to particle 2; w1 and w2 tell whether each write is made
PairLog(plU, plA, plB, t, i1, i2, w1, w2) ==
  <<Access("update", i1, plU, t), Access("update", i2, plU, t),
    Access("snapshot", i1, plU, t), Access("snapshot", i2, plU, t)>>
  \o (IF w1 THEN <<Access("write", i1, plU, t)>> ELSE <<>>)
  \o (IF w2 THEN <<Access("write", i2, plA, t)>> ELSE <<>>)
  \o <<Access("read", i1, plB, t), Access("read", i2, plB, t)>>

\* if (isInfInf) p1Mass = p2Mass = 1
InfInfMassKept(isInfInf, s) == s

InfInfMass(isInfInf, s) == IF isInfInf THEN R(1) ELSE s

\* SmoothSpheresColl, the closing statements: dP *= !isInfInf in the third
\* branch, the kinetic-energy changes, lastCollParticle and lastAbsoluteClock
SSC_record(plU, plA, plB, rec, rij, vijold, rvdot, dPfull, p1Mass, p2Mass, inf1, inf2, isInfInf, t, i1, i2) ==
  [pl |-> plB,
   ret |-> [rec EXCEPT
              !.rij = rij, !.vijold = vijold, !.rvdot = rvdot,
              !.dP = IF ~inf1 /\ ~inf2
                     THEN VScale(dPfull, R(IF isInfInf THEN 0 ELSE 1))
                     ELSE dPfull,
              !.parts = PairParts(rec, plB, i1, i2, p1Mass, p2Mass)],
   log |-> PairLog(plU, plA, plB, t, i1, i2, ~inf1, ~inf2),
   lastColl |-> [p1 |-> i1, p2 |-> i2, clock |-> t]]

\* SmoothSpheresColl, the velocity changes of the three branches
SSC_velocities(plU, rec, rij, vijold, rvdot, dPfull, p1Mass, p2Mass, inf1, inf2, isInfInf, t, i1, i2) ==
  LET plA == IF inf1 THEN plU
             ELSE setVel(plU, i1, VSub(plU[i1].vel, VDivS(dPfull, p1Mass)))
      plB == IF inf2 THEN plA
             ELSE setVel(plA, i2, VAdd(plA[i2].vel, VDivS(dPfull, p2Mass)))
  IN  SSC_record(plU, plA, plB, rec, rij, vijold, rvdot, dPfull, p1Mass,
                 p2Mass, inf1, inf2, isInfInf, t, i1, i2)

\* SmoothSpheresColl, the impulse of the three branches
SSC_impulse(plU, rec, rij, vijold, rvdot, p1Mass, p2Mass, inf1, inf2, isInfInf, t, i1, i2, e) ==
  SSC_velocities(plU, rec, rij, vijold, rvdot,
                 IF inf1 THEN WallImpulse(p2Mass, rij, e, rvdot)
                 ELSE IF inf2 THEN WallImpulse(p1Mass, rij, e, rvdot)
                 ELSE Impulse(rij, e, ReducedMass(p1Mass, p2Mass), rvdot),
                 p1Mass, p2Mass, inf1, inf2, isInfInf, t, i1, i2)

\* SmoothSpheresColl, the masses: 0 is the infinite mass
SSC_masses(plU, rec, rij, vijold, s1, s2, t, i1, i2, e) ==
  LET inf1 == REq(s1, R(0)) /\ ~REq(s2, R(0))
      inf2 == ~REq(s1, R(0)) /\ REq(s2, R(0))
      isInfInf == REq(s1, R(0)) /\ REq(s2, R(0))
  IN  SSC_impulse(plU, rec, rij, vijold, Dot(rij, vijold),
                  InfInfMass(isInfInf, s1), InfInfMass(isInfInf, s2),
                  inf1, inf2, isInfInf, t, i1, i2, e)

\* SmoothSpheresColl, the event record and the boundary condition
SSC_event(plU, rec, m, t, i1, i2, e) ==
  SSC_masses(plU, rec, applyBC(rec.rij, rec.vijold).pos,
             applyBC(rec.rij, rec.vijold).vel, R(m[i1]), R(m[i2]),
             t, i1, i2, e)

SSC_updated(plU, m, t, i1, i2, e, eType) ==
  SSC_event(plU, PairEventData(plU, i1, i2, eType), m, t, i1, i2, e)

\* LNewtonian::SmoothSpheresColl
SmoothSpheresColl(pl0, m, t, i1, i2, e, eType) ==
  SSC_updated(SSC_update(pl0, t, i1, i2), m, t, i1, i2, e, eType)

\* DSMCSpheresRun, the velocity changes and the record
DSMC_velocities(plU, rec, rij, rvdot, dP, p1Mass, p2Mass, t, i1, i2) ==
  LET plA == setVel(plU, i1, VSub(plU[i1].vel, VDivS(dP, p1Mass)))
      plB == setVel(plA, i2, VAdd(plA[i2].vel, VDivS(dP, p2Mass)))
  IN  [pl |-> plB,
       ret |-> [rec EXCEPT !.rij = rij, !.rvdot = rvdot, !.dP = dP,
                           !.parts = PairParts(rec, plB, i1, i2, p1Mass, p2Mass)],
       log |-> PairLog(plU, plA, plB, t, i1, i2, TRUE, TRUE)]

DSMC_updated(plU, p1Mass, p2Mass, t, i1, i2, e, pdat) ==
  DSMC_velocities(plU, PairEventData(plU, i1, i2, "CORE"), pdat.rij,
                  pdat.rvdot,
                  Impulse(pdat.rij, e, ReducedMass(p1Mass, p2Mass), pdat.rvdot),
                  p1Mass, p2Mass, t, i1, i2)

\* LNewtonian::DSMCSpheresRun; pdat carries the rij and rvdot of the test
DSMCSpheresRun(pl0, m, t, i1, i2, e, pdat) ==
  DSMC_updated(updateParticlePair(pl0, t, i1, i2), R(m[i1]), R(m[i2]),
               t, i1, i2, e, pdat)

\* the accesses of a single-particle response, in program order: plU is the
\* particle list after the opening update, plA after the writes; writes is
\* the number of assignments made to the velocity
SingleLog(plU, plA, t, id, writes) ==
  <<Access("update", id, plU, t), Access("snapshot", id, plU, t)>>
  \o [k \in 1..writes |-> Access("write", id, plU, t)]
  \o <<Access("read", id, plA, t)>>

\* the close of a single-particle response: the velocity v is assigned and
\* the kinetic-energy change recorded
SingleRecord(plU, plA, rec, pMass, t, id, writes) ==
  [pl |-> plA,
   ret |-> [type |-> rec.type, rij |-> VZero, vijold |-> VZero,
            rvdot |-> R(0), dP |-> VZero,
            parts |-> <<setDeltaKE(rec, pMass, plA[id].vel)>>],
   log |-> SingleLog(plU, plA, t, id, writes)]

SingleResult(plU, rec, v, pMass, t, id, writes) ==
  SingleRecord(plU, setVel(plU, id, v), rec, pMass, t, id, writes)

\* velocity -= (1 + e) * (n | velocity) * n
Reflect(vel, n, e) ==
  VSub(vel, VScale(n, RMul(RAdd(R(1), e), Dot(n, vel))))

RWC_updated(plU, m, t, id, vNorm, e) ==
  SingleResult(plU, ParticleEventData(plU, id, "WALL"),
               Reflect(plU[id].vel, vNorm, e), R(m[id]), t, id, 1)

\* LNewtonian::runWallCollision
runWallCollision(pl0, m, t, id, vNorm, e) ==
  RWC_updated(updateParticle(pl0, t, id), m, t, id, vNorm, e)

\* rij /= rij.nrm()
Normalised(rij) == VDivS(rij, RSqrt(Nrm2(rij)))

\* the separation runSphereWallCollision normalises
SphereWallRij(pl0, t, id, origin) ==
  applyBC(VSub(origin, updateParticle(pl0, t, id)[id].pos), VZero).pos

RSWC_updated(plU, m, t, id, rij, e) ==
  SingleResult(plU, ParticleEventData(plU, id, "WALL"),
               Reflect(plU[id].vel, Normalised(rij), e), R(m[id]), t, id, 1)

\* LNewtonian::runSphereWallCollision
runSphereWallCollision(pl0, m, t, id, origin, e) ==
  RSWC_updated(updateParticle(pl0, t, id), m, t, id,
               SphereWallRij(pl0, t, id, origin), e)

\* rij -= Vector((rij | vNorm) * vNorm)
AxisRemoved(rij, vNorm) == VSub(rij, VScale(vNorm, Dot(rij, vNorm)))

\* the separation runCylinderWallCollision normalises
CylinderWallRij(pl0, t, id, origin, vNorm) ==
  AxisRemoved(SphereWallRij(pl0, t, id, origin), vNorm)

\* LNewtonian::runCylinderWallCollision
runCylinderWallCollision(pl0, m, t, id, origin, vNorm, e) ==
  RSWC_updated(updateParticle(pl0, t, id), m, t, id,
               CylinderWallRij(pl0, t, id, origin, vNorm), e)

\* velocity[iDim] = normal_sampler() * factor; samples are the three draws
RGE_updated(plU, pMass, t, id, factor, samples) ==
  SingleResult(plU, ParticleEventData(plU, id, "GAUSSIAN"),
               VScale(samples, factor), pMass, t, id, 1)

\* LNewtonian::randomGaussianEvent
randomGaussianEvent(pl0, m, t, id, sqrtT, samples) ==
  RGE_updated(updateParticle(pl0, t, id), R(m[id]), t, id,
              RDiv(sqrtT, RSqrt(R(m[id]))), samples)

\* velocity += vNorm * (sqrtT * sqrt(-2 log(1 - uniform) / mass)
\*                      - (velocity | vNorm)); logTerm is -2 log(1 - uniform)
AndersenNormal(vel, vNorm, sqrtT, logTerm, pMass) ==
  VAdd(vel, VScale(vNorm, RSub(RMul(sqrtT, RSqrt(RDiv(logTerm, pMass))),
                               Dot(vel, vNorm))))

RAWC_updated(plU, pMass, t, id, vNorm, sqrtT, samples, logTerm) ==
  SingleResult(plU, ParticleEventData(plU, id, "WALL"),
               AndersenNormal(VScale(samples, RDiv(sqrtT, RSqrt(pMass))),
                              vNorm, sqrtT, logTerm, pMass),
               pMass, t, id, 2)

\* LNewtonian::runAndersenWallCollision
runAndersenWallCollision(pl0, m, t, id, vNorm, sqrtT, samples, logTerm) ==
  RAWC_updated(updateParticle(pl0, t, id), R(m[id]), t, id, vNorm, sqrtT,
               samples, logTerm)

RAbs(a) == <<Abs(a[1]), a[2]>>

\* runOscilatingPlate, the relative normal velocity once the nearly-elastic
\* thresholds 0.002 and 0.001 on |rvdot / maxWallVel| are applied
PlateRvdot(rvdot, maxWallVel) ==
  IF RLt(RAbs(RDiv(rvdot, maxWallVel)), Frac(1, 1000))
  THEN IF RLt(rvdot, R(0)) THEN RMul(RNeg(maxWallVel), Frac(1, 100))
       ELSE RMul(maxWallVel, Frac(1, 100))
  ELSE rvdot

PlateInelas(rvdot, maxWallVel, e) ==
  IF RLt(RAbs(RDiv(rvdot, maxWallVel)), Frac(2, 1000)) THEN R(1) ELSE e

\* Vector delP = nhat * mu * (1.0 + inelas) * rvdot
PlateDelP(nhat, mu, inelas, rvdot) ==
  VScale(VScale(VScale(nhat, mu), RAdd(R(1), inelas)), rvdot)

ROP_collide(plU, rec, vel, nhat, pmass, mu, e, rvdot, fL, t, id) ==
  SingleResult(plU, rec,
               VSub(plU[id].vel,
                    VDivS(PlateDelP(nhat, mu,
                                    PlateInelas(rvdot, fL.maxWallVel, e),
                                    PlateRvdot(rvdot, fL.maxWallVel)),
                          pmass)),
               pmass, t, id, 1)

\* runOscilatingPlate once the particle is up to date; fL stands for the
\* COscillatingPlateFunc built on it: test_root(), wallVelocity() and
\* maxWallVel(). An invalid root is logged and the record returned as built.
ROP_updated(plU, rec, vel, nhat, pmass, plateMass, e, fL, t, id) ==
  IF ~fL.test_root
  THEN [pl |-> plU,
        ret |-> [type |-> rec.type, rij |-> VZero, vijold |-> VZero,
                 rvdot |-> R(0), dP |-> VZero, parts |-> <<rec>>],
        log |-> <<Access("update", id, plU, t), Access("snapshot", id, plU, t),
                  Access("read", id, plU, t)>>]
  ELSE ROP_collide(plU, rec, vel, nhat, pmass, ReducedMass(pmass, plateMass), e,
                   Dot(VSub(vel, fL.wallVelocity), nhat), fL, t, id)

ROP_event(plU, m, t, id, nhat, plateMass, e, fL) ==
  ROP_updated(plU, ParticleEventData(plU, id, "WALL"),
              applyBC(plU[id].pos, plU[id].vel).vel, nhat, R(m[id]), plateMass, e,
              fL, t, id)

\* LNewtonian::runOscilatingPlate, as it acts on the particle
runOscilatingPlate(pl0, m, t, id, nhat, plateMass, e, fL) ==
  ROP_event(updateParticle(pl0, t, id), m, t, id, nhat, plateMass, e, fL)

\* The plate's delta and t are double& arguments. Their new values are
\* cosines and an arctangent of the value called numerator, which stand here
\* as terms: delta and t hold the numerators that rewrote them, oldest first.
NoPlate == [delta |-> <<>>, t |-> <<>>]

\* double numerator = -nhat | ((delP / mass) + vwall)
PlateNumerator(nhat, delP, plateMass, vwall) == Dot(RNegV(nhat), VAdd(VDivS(delP, plateMass), vwall))

\* the assignments to newt, delta and t that close runOscilatingPlate
PlateRewritten(pt, numerator) == [delta |-> Append(pt.delta, numerator), t |-> Append(pt.t, numerator)]

\* a plate that is rewritten though the root is invalid
ROP_plateAlways(pt, vel, nhat, pmass, plateMass, e, rvdot, fL, strongPlate) == PlateRewritten(pt, PlateNumerator(nhat, PlateDelP(nhat, ReducedMass(pmass, plateMass), PlateInelas(rvdot, fL.maxWallVel, e), PlateRvdot(rvdot, fL.maxWallVel)), plateMass, fL.wallVelocity))

\* an invalid root returns before delta and t are touched, and so does a
\* strong plate
ROP_plate(pt, vel, nhat, pmass, plateMass, e, rvdot, fL, strongPlate) == IF ~fL.test_root \/ strongPlate THEN pt ELSE PlateRewritten(pt, PlateNumerator(nhat, PlateDelP(nhat, ReducedMass(pmass, plateMass), PlateInelas(rvdot, fL.maxWallVel, e), PlateRvdot(rvdot, fL.maxWallVel)), plateMass, fL.wallVelocity))

ROP_plateEvent(pt, plU, m, id, nhat, plateMass, e, fL, strongPlate) == ROP_plate(pt, plU[id].vel, nhat, R(m[id]), plateMass, e, Dot(VSub(applyBC(plU[id].pos, plU[id].vel).vel, fL.wallVelocity), nhat), fL, strongPlate)

\* LNewtonian::runOscilatingPlate, as it acts on the plate
runOscilatingPlate_plate(pt, pl0, m, t, id, nhat, plateMass, e, fL, strongPlate) == ROP_plateEvent(pt, updateParticle(pl0, t, id), m, id, nhat, plateMass, e, fL, strongPlate)

\* Matrix * Vector and Transpose(Matrix)
MatVec(rot, v) == [i \in Dims |-> Dot(rot[i], v)]
Transpose(rot) == [i \in Dims |-> [j \in Dims |-> rot[j][i]]]

\* the axis holding the largest |rij| component, the lowest on ties
LargestDim(rij) ==
  CHOOSE d \in Dims :
    /\ \A j \in Dims : ~RLt(<<Abs(rij[d][1]), rij[d][2]>>,
                            <<Abs(rij[j][1]), rij[j][2]>>)
    /\ \A j \in 1..(d - 1) : RLt(<<Abs(rij[j][1]), rij[j][2]>>,
                                 <<Abs(rij[d][1]), rij[d][2]>>)

\* the unit vector along dim, pointing as rij does
CollVec(rijR, dim) ==
  [i \in Dims |-> IF i # dim THEN R(0)
                  ELSE IF RLt(rijR[dim], R(0)) THEN R(-1) ELSE R(1)]

\* parallelCubeColl, the velocity changes and the record
PCC_velocities(plU, rec, rij, vijold, rvdot, dP, p1Mass, p2Mass, t, i1, i2) ==
  LET plA == setVel(plU, i1, VSub(plU[i1].vel, VDivS(dP, p1Mass)))
      plB == setVel(plA, i2, VAdd(plA[i2].vel, VDivS(dP, p2Mass)))
  IN  [pl |-> plB,
       ret |-> [rec EXCEPT !.rij = rij, !.vijold = vijold, !.rvdot = rvdot,
                           !.dP = dP,
                           !.parts = PairParts(rec, plB, i1, i2, p1Mass, p2Mass)],
       log |-> PairLog(plU, plA, plB, t, i1, i2, TRUE, TRUE)]

\* parallelCubeColl, the impulse along collvec, rotated back
PCC_impulse(plU, rec, rijR, vijR, collvec, mu, p1Mass, p2Mass, t, i1, i2, e, rot) ==
  PCC_velocities(plU, rec, MatVec(Transpose(rot), rijR),
                 MatVec(Transpose(rot), vijR), Dot(rijR, vijR),
                 MatVec(Transpose(rot),
                        VScale(VScale(VScale(collvec, RAdd(R(1), e)), mu),
                               Dot(collvec, vijR))),
                 p1Mass, p2Mass, t, i1, i2)

\* parallelCubeColl, the rotated separation and relative velocity
PCC_rotated(plU, rec, rijR, vijR, p1Mass, p2Mass, t, i1, i2, e, rot) ==
  PCC_impulse(plU, rec, rijR, vijR, CollVec(rijR, LargestDim(rijR)),
              ReducedMass(p1Mass, p2Mass), p1Mass, p2Mass, t, i1, i2, e, rot)

PCC_event(plU, rec, m, t, i1, i2, e, rot) ==
  PCC_rotated(plU, rec, MatVec(rot, applyBC(rec.rij, rec.vijold).pos),
              MatVec(rot, applyBC(rec.rij, rec.vijold).vel),
              R(m[i1]), R(m[i2]), t, i1, i2, e, rot)

PCC_updated(plU, m, t, i1, i2, e, rot, eType) ==
  PCC_event(plU, PairEventData(plU, i1, i2, eType), m, t, i1, i2, e, rot)

\* LNewtonian::parallelCubeColl
parallelCubeColl(pl0, m, t, i1, i2, e, rot, eType) ==
  PCC_updated(updateParticlePair(pl0, t, i1, i2), m, t, i1, i2, e, rot, eType)

\* the impulse of a square-well event and its type (the shared algebra of
\* SphereWellEvent and multibdyWellEvent; nonEvent: the deltaKE == 0 branch
\* that only SphereWellEvent has)
\* rvdot * rvdot + 2.0 * R2 * deltaKE / mu
WellSqrtArg(rij, rvdot, mu, deltaKE) ==
  RAdd(RMul(rvdot, rvdot), RDiv(RMul(RMul(R(2), Nrm2(rij)), deltaKE), mu))

\* the branches of a square-well event on sqrtArg: the type and the impulse
WellBranches(rij, rvdot, mu, deltaKE, nonEvent, R2, sqrtArg) ==
  IF RLt(deltaKE, R(0)) /\ RLt(sqrtArg, R(0))
  THEN [type |-> "BOUNCE",
        dP |-> VDivS(VScale(VScale(VScale(rij, R(2)), mu), rvdot), R2)]
  ELSE IF nonEvent /\ REq(deltaKE, R(0))
  THEN [type |-> "NON_EVENT", dP |-> VZero]
  ELSE [type |-> IF RLt(deltaKE, R(0)) THEN "WELL_KEDOWN" ELSE "WELL_KEUP",
        dP |-> IF RLt(rvdot, R(0))
               THEN VScale(rij, RDiv(RMul(R(2), deltaKE),
                                     RSub(RSqrt(sqrtArg), rvdot)))
               ELSE VScale(rij, RDiv(RMul(R(-2), deltaKE),
                                     RAdd(rvdot, RSqrt(sqrtArg))))]

WellImpulse(rij, rvdot, mu, deltaKE, nonEvent) ==
  WellBranches(rij, rvdot, mu, deltaKE, nonEvent, Nrm2(rij),
               WellSqrtArg(rij, rvdot, mu, deltaKE))

\* the sqrtArg SphereWellEvent computes on these particles
SWE_sqrtArg(rec, p1Mass, p2Mass, deltaKE) ==
  WellSqrtArg(applyBC(rec.rij, rec.vijold).pos,
              Dot(applyBC(rec.rij, rec.vijold).pos,
                  applyBC(rec.rij, rec.vijold).vel),
              ReducedMass(p1Mass, p2Mass), deltaKE)

SphereWellSqrtArg(pl0, m, t, i1, i2, deltaKE) ==
  SWE_sqrtArg(PairEventData(updateParticlePair(pl0, t, i1, i2), i1, i2, "NONE"),
              R(m[i1]), R(m[i2]), deltaKE)

\* the type and potential-energy change a well event sets on a particle
setWellType(part, type, deltaKE) ==
  [part EXCEPT !.type = type,
               !.deltaU = IF type \in {"WELL_KEDOWN", "WELL_KEUP"}
                          THEN RMul(Frac(-1, 2), deltaKE) ELSE R(0)]

\* SphereWellEvent, the record
SWE_record(plU, plA, plB, rec, rij, vijold, rvdot, w, p1Mass, p2Mass, t, i1, i2, deltaKE) ==
  [pl |-> plB,
   ret |-> [rec EXCEPT
              !.type = w.type, !.rij = rij, !.vijold = vijold,
              !.rvdot = rvdot, !.dP = w.dP,
              !.parts =
                <<setDeltaKE(setWellType(rec.parts[1], w.type, deltaKE),
                             p1Mass, plB[i1].vel),
                  setDeltaKE(setWellType(rec.parts[2], w.type, deltaKE),
                             p2Mass, plB[i2].vel)>>],
   log |-> PairLog(plU, plA, plB, t, i1, i2, TRUE, TRUE)]

\* SphereWellEvent, the velocity changes
SWE_velocities(plU, rec, rij, vijold, rvdot, w, p1Mass, p2Mass, t, i1, i2, deltaKE) ==
  LET plA == setVel(plU, i1, VSub(plU[i1].vel, VDivS(w.dP, p1Mass)))
      plB == setVel(plA, i2, VAdd(plA[i2].vel, VDivS(w.dP, p2Mass)))
  IN  SWE_record(plU, plA, plB, rec, rij, vijold, rvdot, w, p1Mass, p2Mass,
                 t, i1, i2, deltaKE)

SWE_impulse(plU, rec, rij, vijold, rvdot, p1Mass, p2Mass, t, i1, i2, deltaKE) ==
  SWE_velocities(plU, rec, rij, vijold, rvdot,
                 WellImpulse(rij, rvdot, ReducedMass(p1Mass, p2Mass), deltaKE,
                             TRUE),
                 p1Mass, p2Mass, t, i1, i2, deltaKE)

SWE_geometry(plU, rec, rij, vijold, m, t, i1, i2, deltaKE) ==
  SWE_impulse(plU, rec, rij, vijold, Dot(rij, vijold), R(m[i1]), R(m[i2]),
              t, i1, i2, deltaKE)

SWE_event(plU, rec, m, t, i1, i2, deltaKE) ==
  SWE_geometry(plU, rec, applyBC(rec.rij, rec.vijold).pos,
               applyBC(rec.rij, rec.vijold).vel, m, t, i1, i2, deltaKE)

SWE_updated(plU, m, t, i1, i2, deltaKE, eType) ==
  SWE_event(plU, PairEventData(plU, i1, i2, eType), m, t, i1, i2, deltaKE)

\* LNewtonian::SphereWellEvent
SphereWellEvent(pl0, m, t, i1, i2, deltaKE, eType) ==
  SWE_updated(updateParticlePair(pl0, t, i1, i2), m, t, i1, i2, deltaKE, eType)

\* the loops of the multi-body routines over a range (a sequence of ids)
RECURSIVE UpdateRange(_, _, _)
UpdateRange(pl, t, range) ==
  IF range = <<>> THEN pl
  ELSE UpdateRange(updateParticle(pl, t, Head(range)), t, Tail(range))

RECURSIVE UpdateLog(_, _, _)
UpdateLog(pl, t, range) ==
  IF range = <<>> THEN <<>>
  ELSE LET plU == updateParticle(pl, t, Head(range))
       IN  <<Access("update", Head(range), plU, t),
             Access("read", Head(range), plU, t)>>
           \o UpdateLog(plU, t, Tail(range))

RECURSIVE StructMass(_, _)
StructMass(m, range) ==
  IF range = <<>> THEN R(0)
  ELSE RAdd(R(m[Head(range)]), StructMass(m, Tail(range)))

\* the sums of vel * mass and of pos * mass over a range
RECURSIVE COMVelSum(_, _, _)
COMVelSum(pl, m, range) ==
  IF range = <<>> THEN VZero
  ELSE VAdd(VScale(applyBC(pl[Head(range)].pos, pl[Head(range)].vel).vel,
                   R(m[Head(range)])),
            COMVelSum(pl, m, Tail(range)))

RECURSIVE COMPosSum(_, _, _)
COMPosSum(pl, m, range) ==
  IF range = <<>> THEN VZero
  ELSE VAdd(VScale(applyBC(pl[Head(range)].pos, pl[Head(range)].vel).pos,
                   R(m[Head(range)])),
            COMPosSum(pl, m, Tail(range)))

\* the closing loop: snapshot each member, add dv to its velocity, record
\* its kinetic-energy change
DistributeJoin(pl, plA, t, id, part, rest) ==
  [pl |-> rest.pl,
   parts |-> <<part>> \o rest.parts,
   log |-> <<Access("snapshot", id, pl, t), Access("write", id, pl, t),
             Access("read", id, plA, t)>> \o rest.log]

RECURSIVE Distribute(_, _, _, _, _, _)
DistributeStep(pl, plA, m, t, range, dv, type) ==
  DistributeJoin(pl, plA, t, Head(range),
                 setDeltaKE(ParticleEventData(pl, Head(range), type),
                            R(m[Head(range)]), plA[Head(range)].vel),
                 Distribute(plA, m, t, Tail(range), dv, type))

Distribute(pl, m, t, range, dv, type) ==
  IF range = <<>> THEN [pl |-> pl, parts |-> <<>>, log |-> <<>>]
  ELSE DistributeStep(pl, setVel(pl, Head(range), VAdd(pl[Head(range)].vel, dv)),
                      m, t, range, dv, type)

\* the synthetic two-body geometry of two ranges
COMGeometry(structmass1, structmass2, rij, vij) ==
  [structmass1 |-> structmass1, structmass2 |-> structmass2,
   rij |-> rij, vij |-> vij, rvdot |-> Dot(rij, vij),
   mu |-> ReducedMass(structmass1, structmass2)]

COMPair(structmass1, structmass2, COMVel1, COMVel2, COMPos1, COMPos2) ==
  COMGeometry(structmass1, structmass2,
              applyBC(VSub(COMPos1, COMPos2), VSub(COMVel1, COMVel2)).pos,
              applyBC(VSub(COMPos1, COMPos2), VSub(COMVel1, COMVel2)).vel)

COMSums(pl, m, range1, range2, structmass1, structmass2) ==
  COMPair(structmass1, structmass2,
          VDivS(COMVelSum(pl, m, range1), structmass1),
          VDivS(COMVelSum(pl, m, range2), structmass2),
          VDivS(COMPosSum(pl, m, range1), structmass1),
          VDivS(COMPosSum(pl, m, range2), structmass2))

COMData(pl, m, range1, range2) ==
  COMSums(pl, m, range1, range2, StructMass(m, range1), StructMass(m, range2))

\* the accesses of the two opening loops
MultibdyUpdateLog(pl0, t, range1, range2) ==
  UpdateLog(pl0, t, range1) \o UpdateLog(UpdateRange(pl0, t, range1), t, range2)

\* the two closing loops and the record of a multi-body event
MultibdyRecord(c, type, dP, d1, d2, updLog) ==
  [pl |-> d2.pl,
   ret |-> [type |-> type, rij |-> c.rij, vijold |-> c.vij,
            rvdot |-> c.rvdot, dP |-> dP, parts |-> d1.parts \o d2.parts],
   log |-> updLog \o d1.log \o d2.log]

MultibdySecond(m, t, range2, c, type, dP, d1, updLog) ==
  MultibdyRecord(c, type, dP, d1,
                 Distribute(d1.pl, m, t, range2, VDivS(dP, c.structmass2), type),
                 updLog)

MultibdyDistribute(plU, m, t, range1, range2, c, type, dP, updLog) ==
  MultibdySecond(m, t, range2, c, type, dP,
                 Distribute(plU, m, t, range1,
                            RNegV(VDivS(dP, c.structmass1)), type),
                 updLog)

MBC_impulse(plU, m, t, range1, range2, c, eType, updLog) ==
  MultibdyDistribute(plU, m, t, range1, range2, c, eType,
                     Impulse(c.rij, R(1), c.mu, c.rvdot), updLog)

MBC_updated(plU, m, t, range1, range2, eType, updLog) ==
  MBC_impulse(plU, m, t, range1, range2, COMData(plU, m, range1, range2),
              eType, updLog)

\* LNewtonian::multibdyCollision (e is the constant 1.0)
multibdyCollision(pl0, m, t, range1, range2, eType) ==
  MBC_updated(UpdateRange(UpdateRange(pl0, t, range1), t, range2), m, t,
              range1, range2, eType, MultibdyUpdateLog(pl0, t, range1, range2))

\* the sqrtArg multibdyWellEvent computes on these ranges
MBW_sqrtArg(c, deltaKE) == WellSqrtArg(c.rij, c.rvdot, c.mu, deltaKE)

MultibdyWellSqrtArg(pl0, m, t, range1, range2, deltaKE) ==
  MBW_sqrtArg(COMData(UpdateRange(UpdateRange(pl0, t, range1), t, range2), m,
                      range1, range2), deltaKE)

MBW_branches(plU, m, t, range1, range2, c, w, updLog) ==
  MultibdyDistribute(plU, m, t, range1, range2, c, w.type, w.dP, updLog)

MBW_impulse(plU, m, t, range1, range2, c, deltaKE, updLog) ==
  MBW_branches(plU, m, t, range1, range2, c,
               WellImpulse(c.rij, c.rvdot, c.mu, deltaKE, FALSE), updLog)

MBW_updated(plU, m, t, range1, range2, deltaKE, updLog) ==
  MBW_impulse(plU, m, t, range1, range2, COMData(plU, m, range1, range2),
              deltaKE, updLog)

\* LNewtonian::multibdyWellEvent
multibdyWellEvent(pl0, m, t, range1, range2, deltaKE) ==
  MBW_updated(UpdateRange(UpdateRange(pl0, t, range1), t, range2), m, t,
              range1, range2, deltaKE,
              MultibdyUpdateLog(pl0, t, range1, range2))

----------------------------------------------------------------------------
(* The responses as actions, called by the scheduler on the particles of   *)
(* the event it has selected.                                              *)

\* time steps the scheduler may advance the clock by
MaxTime == 1

\* initial kinematics: the positions and velocities of particles 0, 1, 2
Scenarios ==
  { [pos |-> <<<<Frac(-3, 5), R(0), R(0)>>, <<Frac(3, 5), R(0), R(0)>>,
               VInt(0, 2, 1)>>,
     vel |-> <<VInt(1, 0, 0), VInt(-1, 0, 0), VInt(0, -1, 1)>>],
    [pos |-> <<VInt(0, 0, 0), VInt(1, 1, 0), VInt(-1, 0, 2)>>,
     vel |-> <<VInt(1, 2, 0), VInt(-1, 0, 1), VInt(2, 1, -1)>>] }
\* the Species masses of particles 0, 1, 2 (0 is the infinite-mass sentinel)
MassCases == {<<1, 1, 2>>, <<1, 2, 1>>, <<0, 1, 2>>, <<2, 0, 1>>, <<0, 0, 1>>}

PIDs == 0..2
Pairs == {pr \in PIDs \X PIDs : pr[1] # pr[2]}
Es == {R(0), Frac(1, 2), R(1)}
WallNorms == {VInt(1, 0, 0), VInt(0, 1, 0), VInt(0, 0, -1)}
RotI == <<VInt(1, 0, 0), VInt(0, 1, 0), VInt(0, 0, 1)>>
RotZ == <<VInt(0, -1, 0), VInt(1, 0, 0), VInt(0, 0, 1)>>
Rots == {RotI, RotZ}
DeltaKEs == {R(-2), R(-1), R(0), R(3)}
DSMCrijs == {VInt(1, 0, 0), VInt(0, 1, 1)}
RangePairs == {<<<<0, 1>>, <<2>>>>, <<<<2>>, <<0, 1>>>>, <<<<0>>, <<1>>>>,
               <<<<1, 2>>, <<0>>>>}

Origins == {VInt(3, 4, 0), VInt(1, 2, 2)}
\* draws of the normal sampler, one per dimension
Samples == {VInt(1, 0, -1), <<Frac(1, 2), R(0), R(1)>>}
SqrtTs == {R(1), R(2)}
\* values of -2 log(1 - uniform_sampler())
LogTerms == {R(0), R(4)}
PlateMasses == {R(3)}
\* what the COscillatingPlateFunc of the event answers
PlateFuncs == [test_root : BOOLEAN,
               wallVelocity : {VInt(0, 0, 0), VInt(1, 0, 0)},
               maxWallVel : {R(1), R(1000)}]

NoRecord == [type |-> "NONE", rij |-> VZero, vijold |-> VZero, rvdot |-> R(0),
             dP |-> VZero, parts |-> <<>>]
NoCall == [op |-> "none", ids |-> <<>>, e |-> R(0), aux |-> <<>>]

\* what every response leaves behind; one response is run on each
\* configuration, so that every result is compared with its own inputs
Returned(r, c) ==
  /\ pre' = particleList
  /\ particleList' = r.pl
  /\ retVal' = r.ret
  /\ accessLog' = r.log
  /\ call' = c
  /\ UNCHANGED <<mass, dSysTime>>
  /\ UNCHANGED <<regVars, testVars, hack, cellDimensions, streamed, win>>

\* a response that is not given the plate
Responded(r, c) == Returned(r, c) /\ UNCHANGED plate

\* the clock advances; particles are streamed lazily, when next updated
AdvanceTime ==
  /\ dSysTime < MaxTime
  /\ dSysTime' = dSysTime + 1
  /\ UNCHANGED <<particleList, mass, pre, call, retVal, accessLog, lastColl>>
  /\ UNCHANGED <<regVars, testVars, sysVars>>

RunSmoothSpheresColl ==
  /\ call = NoCall
  /\ \E pr \in Pairs, e \in Es :
       LET r == SmoothSpheresColl(particleList, mass, dSysTime, pr[1], pr[2], e,
                                  "CORE")
       IN  /\ Responded(r, [op |-> "SmoothSpheresColl", ids |-> <<pr[1], pr[2]>>,
                            e |-> e, aux |-> <<>>])
           /\ lastColl' = r.lastColl

\* DSMCSpheresTest has set pdat.rvdot = pdat.rij | vij and has not rejected
\* the pair as separating (rvdot > 0)
RunDSMCSpheresRun ==
  /\ call = NoCall
  /\ \E pr \in Pairs, e \in Es, rij \in DSMCrijs :
       LET rvdot == Dot(rij, VSub(particleList[pr[1]].vel, particleList[pr[2]].vel))
           r == DSMCSpheresRun(particleList, mass, dSysTime, pr[1], pr[2], e,
                               [rij |-> rij, rvdot |-> rvdot])
       IN  /\ ~RLt(R(0), rvdot)
           /\ Responded(r, [op |-> "DSMCSpheresRun", ids |-> <<pr[1], pr[2]>>,
                            e |-> e, aux |-> rij])
           /\ UNCHANGED lastColl

RunWallCollision ==
  /\ call = NoCall
  /\ \E id \in PIDs, vNorm \in WallNorms, e \in Es :
       LET r == runWallCollision(particleList, mass, dSysTime, id, vNorm, e)
       IN  /\ Responded(r, [op |-> "runWallCollision", ids |-> <<id>>, e |-> e,
                            aux |-> vNorm])
           /\ UNCHANGED lastColl

RunParallelCubeColl ==
  /\ call = NoCall
  /\ \E pr \in Pairs, e \in Es, rot \in Rots :
       LET r == parallelCubeColl(particleList, mass, dSysTime, pr[1], pr[2], e,
                                 rot, "CORE")
       IN  /\ Responded(r, [op |-> "parallelCubeColl", ids |-> <<pr[1], pr[2]>>,
                            e |-> e, aux |-> rot])
           /\ UNCHANGED lastColl

RunSphereWellEvent ==
  /\ call = NoCall
  /\ \E pr \in Pairs, deltaKE \in DeltaKEs :
       LET r == SphereWellEvent(particleList, mass, dSysTime, pr[1], pr[2],
                                deltaKE, "WELL_OUT")
       IN  /\ HasSqrt(SphereWellSqrtArg(particleList, mass, dSysTime, pr[1],
                                         pr[2], deltaKE))
           /\ Responded(r, [op |-> "SphereWellEvent", ids |-> <<pr[1], pr[2]>>,
                            e |-> R(1), aux |-> deltaKE])
           /\ UNCHANGED lastColl

RunMultibdyCollision ==
  /\ call = NoCall
  /\ \E rp \in RangePairs :
       LET r == multibdyCollision(particleList, mass, dSysTime, rp[1], rp[2],
                                  "CORE")
       IN  /\ Responded(r, [op |-> "multibdyCollision", ids |-> rp[1] \o rp[2],
                            e |-> R(1), aux |-> rp])
           /\ UNCHANGED lastColl

RunMultibdyWellEvent ==
  /\ call = NoCall
  /\ \E rp \in RangePairs, deltaKE \in DeltaKEs :
       LET r == multibdyWellEvent(particleList, mass, dSysTime, rp[1], rp[2],
                                  deltaKE)
       IN  /\ HasSqrt(MultibdyWellSqrtArg(particleList, mass, dSysTime, rp[1],
                                           rp[2], deltaKE))
           /\ Responded(r, [op |-> "multibdyWellEvent", ids |-> rp[1] \o rp[2],
                            e |-> R(1), aux |-> <<rp, deltaKE>>])
           /\ UNCHANGED lastColl

RunSphereWallCollision ==
  /\ call = NoCall
  /\ \E id \in PIDs, origin \in Origins, e \in Es :
       LET r == runSphereWallCollision(particleList, mass, dSysTime, id,
                                       origin, e)
       IN  /\ HasSqrt(Nrm2(SphereWallRij(particleList, dSysTime, id, origin)))
           /\ Responded(r, [op |-> "runSphereWallCollision", ids |-> <<id>>,
                            e |-> e, aux |-> origin])
           /\ UNCHANGED lastColl

RunCylinderWallCollision ==
  /\ call = NoCall
  /\ \E id \in PIDs, origin \in Origins, vNorm \in WallNorms, e \in Es :
       LET r == runCylinderWallCollision(particleList, mass, dSysTime, id,
                                         origin, vNorm, e)
       IN  /\ HasSqrt(Nrm2(CylinderWallRij(particleList, dSysTime, id, origin,
                                           vNorm)))
           /\ Responded(r, [op |-> "runCylinderWallCollision", ids |-> <<id>>,
                            e |-> e, aux |-> <<origin, vNorm>>])
           /\ UNCHANGED lastColl

RunRandomGaussianEvent ==
  /\ call = NoCall
  /\ \E id \in PIDs, sqrtT \in SqrtTs, samples \in Samples :
       LET r == randomGaussianEvent(particleList, mass, dSysTime, id, sqrtT,
                                    samples)
       IN  /\ HasSqrt(R(mass[id]))
           /\ Responded(r, [op |-> "randomGaussianEvent", ids |-> <<id>>,
                            e |-> R(1), aux |-> <<sqrtT, samples>>])
           /\ UNCHANGED lastColl

RunAndersenWallCollision ==
  /\ call = NoCall
  /\ \E id \in PIDs, vNorm \in WallNorms, sqrtT \in SqrtTs,
        samples \in Samples, logTerm \in LogTerms :
       LET r == runAndersenWallCollision(particleList, mass, dSysTime, id,
                                         vNorm, sqrtT, samples, logTerm)
       IN  /\ HasSqrt(R(mass[id]))
           /\ HasSqrt(RDiv(logTerm, R(mass[id])))
           /\ Responded(r, [op |-> "runAndersenWallCollision", ids |-> <<id>>,
                            e |-> R(1),
                            aux |-> <<vNorm, sqrtT, samples, logTerm>>])
           /\ UNCHANGED lastColl

RunOscilatingPlate ==
  /\ call = NoCall
  /\ \E id \in PIDs, nhat \in WallNorms, plateMass \in PlateMasses, e \in Es,
        fL \in PlateFuncs, strongPlate \in BOOLEAN :
       LET r == runOscilatingPlate(particleList, mass, dSysTime, id, nhat,
                                   plateMass, e, fL)
       IN  /\ Returned(r, [op |-> "runOscilatingPlate", ids |-> <<id>>,
                           e |-> e, aux |-> <<nhat, plateMass, fL, strongPlate>>])
           /\ plate' = runOscilatingPlate_plate(plate, particleList, mass, dSysTime, id, nhat, plateMass, e, fL, strongPlate)
           /\ UNCHANGED lastColl

InitColl ==
  /\ \E sc \in Scenarios :
       particleList = [id \in PIDs |->
                         [pos |-> sc.pos[id + 1], vel |-> sc.vel[id + 1],
                          lastUpdate |-> 0]]
  /\ \E mc \in MassCases : mass = [id \in PIDs |-> mc[id + 1]]
  /\ dSysTime = 0
  /\ pre = particleList
  /\ call = NoCall
  /\ retVal = NoRecord
  /\ accessLog = <<>>
  /\ lastColl = [p1 |-> 0, p2 |-> 0, clock |-> -1]

\* the registry as configured and initialised before any event is run
RegReady ==
  /\ status = RUNNING
  /\ species = <<>> /\ interactions = <<>> /\ globals = <<>>
  /\ locals = <<>> /\ systems = <<>> /\ topology = <<>>
  /\ err = "" /\ lastOp = "run" /\ initLog = <<>>
  /\ N = Cardinality(PIDs)

\* the particles of the registry's checks, before any event
CollIdle ==
  /\ particleList = [id \in PIDs |->
                       [pos |-> VZero, vel |-> VZero, lastUpdate |-> 0]]
  /\ mass = [id \in PIDs |-> 1]
  /\ dSysTime = 0
  /\ pre = particleList
  /\ call = NoCall
  /\ retVal = NoRecord
  /\ accessLog = <<>>
  /\ lastColl = [p1 |-> 0, p2 |-> 0, clock |-> -1]

----------------------------------------------------------------------------
(* The lookups of the registry: linear scans of one owned collection.      *)

\* BOOST_FOREACH ... if (ptr->getName() == name) return: the index of the
\* first object of that name, 0 when the loop ends without a return
LastNamed(coll, name) ==
  IF \E k \in 1..Len(coll) : coll[k].name = name
  THEN CHOOSE k \in 1..Len(coll) : coll[k].name = name /\ \A j \in (k + 1)..Len(coll) : coll[j].name # name
  ELSE 0

FirstNamed(coll, name) ==
  IF \E k \in 1..Len(coll) : coll[k].name = name
  THEN CHOOSE k \in 1..Len(coll) : coll[k].name = name /\ \A j \in 1..(k - 1) : coll[j].name # name
  ELSE 0

\* the first Species for which isSpecies(p1) holds
FirstSpeciesOf(spp, p1) ==
  IF \E k \in 1..Len(spp) : isSpecies(spp[k], p1)
  THEN CHOOSE k \in 1..Len(spp) : isSpecies(spp[k], p1) /\ \A j \in 1..(k - 1) : ~isSpecies(spp[j], p1)
  ELSE 0

\* Interaction::isInteraction(p1, p2): the Interaction accepts a Species of
\* each of the two particles
isInteractionPair(int, spp, p1, p2) ==
  /\ \E k \in 1..Len(spp) : isSpecies(spp[k], p1) /\ isInteraction(int, spp[k])
  /\ \E k \in 1..Len(spp) : isSpecies(spp[k], p2) /\ isInteraction(int, spp[k])

\* the first Interaction for which isInteraction(p1, p2) holds
FirstInteractionOf(ints, spp, p1, p2) ==
  IF \E k \in 1..Len(ints) : isInteractionPair(ints[k], spp, p1, p2)
  THEN CHOOSE k \in 1..Len(ints) : isInteractionPair(ints[k], spp, p1, p2) /\ \A j \in 1..(k - 1) : ~isInteractionPair(ints[j], spp, p1, p2)
  ELSE 0

\* the object returned (its index in the collection), or the exception thrown
Lookup(k, what) == IF k # 0 THEN [idx |-> k, err |-> ""] ELSE [idx |-> 0, err |-> what]

getTopology(tops, name) == Lookup(FirstNamed(tops, name), "Could not find the topology")
getSpeciesOf(spp, p1) == Lookup(FirstSpeciesOf(spp, p1), "Could not find the requested species")
getSpecies(spp, name) == Lookup(FirstNamed(spp, name), "Could not find the species")
getSystem(syss, name) == Lookup(FirstNamed(syss, name), "Could not find system plugin")
getGlobal(globs, name) == Lookup(FirstNamed(globs, name), "Could not find global plugin")
getLocal(locs, name) == Lookup(FirstNamed(locs, name), "Could not find local plugin")
getInteraction(ints, name) == Lookup(FirstNamed(ints, name), "Could not find interaction plugin")
getInteractionOf(ints, spp, p1, p2) == Lookup(FirstInteractionOf(ints, spp, p1, p2), "Could not find the interaction requested")

NoLookup == [op |-> "none", key |-> <<>>, idx |-> 0]

\* a lookup returns or throws; it is const, or hands out a reference only
Looked(op, key, r) ==
  /\ found' = [op |-> op, key |-> key, idx |-> r.idx]
  /\ err' = r.err
  /\ lastOp' = op
  /\ UNCHANGED <<status, species, interactions, globals, locals, systems, topology, initLog, N>>
  /\ UNCHANGED <<collVars, dat, test, maxprob, sysVars>>

GetTopology == \E name \in Names : Looked("getTopology", name, getTopology(topology, name))
GetSpeciesOf == \E p1 \in PIDs : Looked("getSpecies(particle)", p1, getSpeciesOf(species, p1))
GetSpecies == \E name \in Names : Looked("getSpecies(name)", name, getSpecies(species, name))
GetSystem == \E name \in SysNames : Looked("getSystem", name, getSystem(systems, name))
GetGlobal == \E name \in Names : Looked("getGlobal", name, getGlobal(globals, name))
GetLocal == \E name \in Names : Looked("getLocal", name, getLocal(locals, name))
GetInteraction == \E name \in Names : Looked("getInteraction(name)", name, getInteraction(interactions, name))
GetInteractionOf == \E pr \in PIDs \X PIDs : Looked("getInteraction(p1,p2)", pr, getInteractionOf(interactions, species, pr[1], pr[2]))

\* the Species added to a registry holding ints, one addSpecies call each
RECURSIVE SpeciesAdded(_, _)
SpeciesAdded(ints, sps) == IF sps = <<>> THEN <<>> ELSE addSpecies(CONFIGURING, SpeciesAdded(ints, SubSeq(sps, 1, Len(sps) - 1)), ints, sps[Len(sps)]).coll

\* the objects a registry under configuration may have been given
InteractionSeqs == {<<>>, <<[name |-> "A", claims |-> {"A"}]>>, <<[name |-> "B", claims |-> {"A", "B"}], [name |-> "A", claims |-> {"A"}]>>, <<[name |-> "A", claims |-> {"A"}], [name |-> "A", claims |-> {"A", "B"}]>>}
SpeciesSeqs == {<<>>, <<[name |-> "A", range |-> {0}, intPtr |-> 0]>>, <<[name |-> "B", range |-> {0, 1}, intPtr |-> 0], [name |-> "A", range |-> {1, 2}, intPtr |-> 0]>>, <<[name |-> "A", range |-> {1}, intPtr |-> 0], [name |-> "A", range |-> {0, 1}, intPtr |-> 0]>>}
PluginSeqs == {<<>>, <<[name |-> "A"]>>, <<[name |-> "B"], [name |-> "A"]>>, <<[name |-> "A"], [name |-> "A"]>>}
SystemSeqs == {<<>>, <<[name |-> "SystemTicker"], [name |-> "A"]>>, <<[name |-> "A"], [name |-> "SystemTicker"], [name |-> "A"]>>}

----------------------------------------------------------------------------
(* The event tests of LNewtonian: pure functions of a pair's CPDData.      *)

HUGE_VAL == <<1, 0>>

\* CPDData: the relative kinematics of a pair, dt not yet computed
CPDData(rij, vij) == [rij |-> rij, vij |-> vij, r2 |-> Nrm2(rij), v2 |-> Nrm2(vij), rvdot |-> Dot(rij, vij), dt |-> HUGE_VAL]

\* the discriminant rvdot^2 - v2 (r2 - d2) of |rij + dt vij|^2 = d2
SphereSphereArg(d, d2) == RSub(RMul(d.rvdot, d.rvdot), RMul(d.v2, RSub(d.r2, d2)))

\* the larger root of the quadratic, where the code takes the smaller one
SphereSphereLargerDt(d, d2) == RDiv(RSub(RSqrt(SphereSphereArg(d, d2)), d.rvdot), d.v2)

\* the root SphereSphereInRoot takes, in the numerically stable form
SphereSphereInDt(d, d2) == RDiv(RSub(d2, d.r2), RSub(d.rvdot, RSqrt(SphereSphereArg(d, d2))))

\* SphereSphereInRoot without the test of the sign of rvdot
SphereSphereInRootAnySign(d, d2) ==
  IF RLt(R(0), SphereSphereArg(d, d2))
  THEN [ret |-> TRUE, dat |-> [d EXCEPT !.dt = SphereSphereInDt(d, d2)]]
  ELSE [ret |-> FALSE, dat |-> d]

\* LNewtonian::SphereSphereInRoot: the flag returned and the CPDData left
SphereSphereInRoot(d, d2) ==
  IF RLt(d.rvdot, R(0))
  THEN IF RLt(R(0), SphereSphereArg(d, d2))
       THEN [ret |-> TRUE, dat |-> [d EXCEPT !.dt = SphereSphereInDt(d, d2)]]
       ELSE [ret |-> FALSE, dat |-> d]
  ELSE [ret |-> FALSE, dat |-> d]

\* the relative positions, relative velocities and squared diameters tested
Rijs == {<<Frac(-6, 5), R(0), R(0)>>, <<Frac(-1, 2), R(0), R(0)>>, VInt(-1, 0, 0), VInt(-2, 0, 0), VInt(-2, 1, 0), VInt(-2, 2, 0), VInt(2, 0, 0), VInt(0, 3, -1), VInt(1, 1, -3)}
Vijs == {VInt(2, 0, 0), VInt(1, 0, 0), VInt(-1, 0, 0), VInt(0, 0, 0), VInt(0, 1, 0), VInt(1, -1, 1), VInt(0, -1, 2)}
D2s == {R(1), R(4)}

MaxProbs == {R(0), R(1)}

NoTest == [op |-> "none", arg |-> R(0), ret |-> FALSE, pre |-> <<>>, aux |-> <<>>]

\* what a test leaves: the CPDData it wrote and the record of the call; the
\* root finders are given a pair's CPDData, never the one of a DSMC test,
\* of which only rij, vij and rvdot are set; a behaviour calls the event
\* tests or streams particles, not both
Tested(op, arg, r, aux) ==
  /\ dat' = r.dat
  /\ test' = [op |-> op, arg |-> arg, ret |-> r.ret, pre |-> dat, aux |-> aux]

TestSphereSphereInRoot ==
  \E d2 \in D2s :
    /\ call = NoCall
    /\ test.op # "DSMCSpheresTest"
    /\ HasSqrt(SphereSphereArg(dat, d2))
    /\ Tested("SphereSphereInRoot", d2, SphereSphereInRoot(dat, d2), <<>>)
    /\ UNCHANGED <<maxprob, found, regVars, collVars, sysVars>>

\* the exit root of |rij + dt vij|^2 = d2
SphereSphereOutDt(d, d2) == RDiv(RSub(RSqrt(SphereSphereArg(d, d2)), d.rvdot), d.v2)

\* SphereSphereOutRoot without the isnan test
SphereSphereOutRootKeepNaN(d, d2) == [ret |-> TRUE, dat |-> [d EXCEPT !.dt = SphereSphereOutDt(d, d2)]]

\* LNewtonian::SphereSphereOutRoot: the flag returned and the CPDData left
SphereSphereOutRoot(d, d2) ==
  IF IsNaN(SphereSphereOutDt(d, d2))
  THEN [ret |-> FALSE, dat |-> [d EXCEPT !.dt = HUGE_VAL]]
  ELSE [ret |-> TRUE, dat |-> [d EXCEPT !.dt = SphereSphereOutDt(d, d2)]]

TestSphereSphereOutRoot ==
  \E d2 \in D2s :
    /\ call = NoCall
    /\ test.op # "DSMCSpheresTest"
    /\ HasSqrt(SphereSphereArg(dat, d2))
    /\ Tested("SphereSphereOutRoot", d2, SphereSphereOutRoot(dat, d2), <<>>)
    /\ UNCHANGED <<maxprob, found, regVars, collVars, sysVars>>

\* CubeCubeInRoot, lines 38-40: the first axis of the largest |rij| component
largedim(rij) == LargestDim(rij)

\* the two times at which the pair is d apart along axis iDim
tmptime1(d, iDim, dd) == RDiv(RNeg(RAdd(d.rij[iDim], dd)), d.vij[iDim])
tmptime2(d, iDim, dd) == RDiv(RNeg(RSub(d.rij[iDim], dd)), d.vij[iDim])
\* the entry time taken to be tmptime1 whatever the sign of vij
AxisInFirst(t1, t2) == t1
\* the entry and the exit time of axis iDim, as the loop body orders them
AxisIn(t1, t2) == IF RLt(t1, t2) THEN t1 ELSE t2
AxisOut(t1, t2) == IF RLt(t1, t2) THEN t2 ELSE t1
RMaxInto(acc, t) == IF RLt(acc, t) THEN t ELSE acc
RMinInto(acc, t) == IF RLt(t, acc) THEN t ELSE acc

\* tInMax and tOutMin after the axes 1..n of the loop
RECURSIVE tInMax(_, _, _)
tInMax(d, dd, n) == IF n = 0 THEN RNeg(HUGE_VAL) ELSE RMaxInto(tInMax(d, dd, n - 1), AxisIn(tmptime1(d, n, dd), tmptime2(d, n, dd)))
RECURSIVE tOutMin(_, _, _)
tOutMin(d, dd, n) == IF n = 0 THEN HUGE_VAL ELSE RMinInto(tOutMin(d, dd, n - 1), AxisOut(tmptime1(d, n, dd), tmptime2(d, n, dd)))

\* the slab test: false if tInMax >= tOutMin, else true with dt = tInMax
CubeSlabs(d, tIn, tOut) ==
  IF ~IsNaN(tIn) /\ ~IsNaN(tOut) /\ ~RLt(tIn, tOut)
  THEN [ret |-> FALSE, dat |-> d]
  ELSE [ret |-> TRUE, dat |-> [d EXCEPT !.dt = tIn]]

\* CubeCubeInRoot without the test of the largest axis
CubeCubeInRootNoReject(d, dd) == CubeSlabs(d, tInMax(d, dd, 3), tOutMin(d, dd, 3))

\* LNewtonian::CubeCubeInRoot: the flag returned and the CPDData left
CubeCubeInRoot(d, dd) ==
  IF ~RLt(RMul(d.rij[largedim(d.rij)], d.vij[largedim(d.rij)]), R(0))
  THEN [ret |-> FALSE, dat |-> d]
  ELSE CubeSlabs(d, tInMax(d, dd, 3), tOutMin(d, dd, 3))

\* the cube sides tested
Ds == {R(1), R(3)}

TestCubeCubeInRoot ==
  \E dd \in Ds :
    /\ call = NoCall
    /\ test.op # "DSMCSpheresTest"
    /\ Tested("CubeCubeInRoot", dd, CubeCubeInRoot(dat, dd), <<>>)
    /\ UNCHANGED <<maxprob, found, regVars, collVars, sysVars>>

\* DSMCSpheresTest, lines 323-328: prob against the shared maxprob, the
\* accumulator raised before the comparison; u is Sim->uniform_sampler()
DSMCAccept(pdat, mp, prob, u) == [ret |-> RLt(RMul(u, mp), prob), maxprob |-> mp, dat |-> pdat]
\* the comparison with the accumulator left as it was
DSMCKeep(pdat, mp, prob, u) == DSMCAccept(pdat, mp, prob, u)
\* line 325: maxprob is raised to prob first
DSMCRaise(pdat, mp, prob, u) == DSMCAccept(pdat, IF RLt(mp, prob) THEN prob ELSE mp, prob, u)

\* lines 319-323: no collision of a separating pair
DSMCApproaching(pdat, mp, factor, u) ==
  IF RLt(R(0), pdat.rvdot)
  THEN [ret |-> FALSE, maxprob |-> mp, dat |-> pdat]
  ELSE DSMCRaise(pdat, mp, RMul(factor, RNeg(pdat.rvdot)), u)

\* lines 314-317: vij and rvdot are written into the caller's CPDData
DSMCRvdot(pdat, vij, mp, factor, u) == DSMCApproaching([pdat EXCEPT !.vij = vij, !.rvdot = Dot(pdat.rij, vij)], mp, factor, u)

\* LNewtonian::DSMCSpheresTest: the flag, the maxprob and the CPDData left
DSMCSpheresTest(pl, i1, i2, mp, factor, pdat, u) == DSMCRvdot(pdat, VSub(pl[i1].vel, pl[i2].vel), mp, factor, u)

\* the factors and the uniform samples of [0, 1) tested
Factors == {R(1), Frac(3, 2)}
Us == {R(0), Frac(1, 2), Frac(9, 10)}

\* what DSMCSpheresTest leaves: maxprob, the CPDData and the record of the call
DSMCTested(r, pr, factor, rij, u) ==
  /\ maxprob' = r.maxprob
  /\ dat' = r.dat
  /\ test' = [op |-> "DSMCSpheresTest", arg |-> factor, ret |-> r.ret, pre |-> CPDData(rij, VZero), aux |-> [ids |-> pr, maxprob |-> maxprob, u |-> u]]

\* a DSMC system draws rij into a CPDData of its own, then tests the pair
\* against its maxprob
TestDSMCSpheresTest ==
  /\ call = NoCall
  /\ test.op \in {"none", "DSMCSpheresTest"}
  /\ \E pr \in Pairs, factor \in Factors, rij \in DSMCrijs, u \in Us :
       /\ DSMCTested(DSMCSpheresTest(particleList, pr[1], pr[2], maxprob, factor, CPDData(rij, VZero), u), pr, factor, rij, u)
       /\ UNCHANGED <<found, regVars, collVars, sysVars>>

\* the times a particle is streamed over
Dts == {Frac(1, 2), R(-1), R(2)}

\* a call of streamParticle on one particle, over dt
StreamParticle ==
  /\ call.op \in {"none", "streamParticleBack"}
  /\ test = NoTest
  /\ \E id \in PIDs, dt \in Dts :
       /\ particleList' = [particleList EXCEPT ![id] = streamParticle(particleList[id], dt)]
       /\ pre' = particleList
       /\ call' = [op |-> "streamParticle", ids |-> <<id>>, e |-> dt, aux |-> <<>>]
  /\ UNCHANGED <<mass, dSysTime, retVal, accessLog, lastColl>>
  /\ UNCHANGED <<regVars, testVars, sysVars>>

\* the call that follows it: the same particle streamed over -dt
StreamParticleBack ==
  /\ call.op = "streamParticle"
  /\ particleList' = [particleList EXCEPT ![call.ids[1]] = streamParticle(particleList[call.ids[1]], RNeg(call.e))]
  /\ call' = [call EXCEPT !.op = "streamParticleBack"]
  /\ UNCHANGED <<mass, dSysTime, pre, retVal, accessLog, lastColl>>
  /\ UNCHANGED <<regVars, testVars, sysVars>>

\* no pair is under test in the registry's and the responses' checks
TestIdle ==
  /\ dat = CPDData(VZero, VZero)
  /\ test = NoTest
  /\ maxprob = R(0)
  /\ found = NoLookup

\* the particles, the pair and the accumulator an event test may be given
InitKinematics ==
  /\ \E sc \in Scenarios :
       particleList = [id \in PIDs |->
                         [pos |-> sc.pos[id + 1], vel |-> sc.vel[id + 1],
                          lastUpdate |-> 0]]
  /\ mass = [id \in PIDs |-> 1]
  /\ dSysTime = 0
  /\ pre = particleList
  /\ call = NoCall
  /\ retVal = NoRecord
  /\ accessLog = <<>>
  /\ lastColl = [p1 |-> 0, p2 |-> 0, clock |-> -1]
  /\ \E rij \in Rijs, vij \in Vijs : dat = CPDData(rij, vij)
  /\ test = NoTest
  /\ maxprob \in MaxProbs
  /\ found = NoLookup

----------------------------------------------------------------------------
(* Dynamics::stream and the compression-hack System (CSCellHack).          *)

\* at most this many Dynamics::stream calls are followed
MaxStreams == 3

CompressionHack == [name |-> "CellularCompressionHack"]
\* the Systems owned while the simulation runs, in insertion order
RunningSystemSeqs == {<<CompressionHack>>, <<[name |-> "A"], CompressionHack>>, <<CompressionHack, [name |-> "SystemTicker"], [name |-> "A"]>>}
\* the time steps Dynamics::stream is given
StreamDts == {1, 2}
\* the cell widths the cellular scheduler may hold
CellSizes == {R(2), R(3), R(4)}
GrowthRates == {R(1), Frac(1, 2)}
MaxOrigDiams == {R(1)}

\* the index i the loops of CSCellHack leave in minDiam: the first smallest
minDiam(cd) == CHOOSE i \in Dims : (\A j \in Dims : ~RLt(cd[j], cd[i])) /\ (\A j \in Dims : j < i => RLt(cd[i], cd[j]))

\* the time at which the growing diameter reaches the cell width cd[minDiam]
HaltTime(cd, h) == RDiv(RSub(RDiv(cd[minDiam(cd)], h.maxOrigDiam), R(1)), h.growthRate)

\* CSCellHack::CSCellHack and initialise(nID)
CSCellHack(cd, gr, diam, nID) == [dt |-> HaltTime(cd, [maxOrigDiam |-> diam, growthRate |-> gr]), growthRate |-> gr, maxOrigDiam |-> diam, ID |-> nID]

\* the calls of a stream that leaves the first System out
StreamCallsButFirst(n, dt) == <<<<"BC", 0, dt>>, <<"Liouvillean", 0, dt>>>> \o [k \in 1..(n - 1) |-> <<"System", k + 1, dt>>]

\* the calls Dynamics::stream(dt) makes, in order, over n owned Systems
StreamCalls(n, dt) == <<<<"BC", 0, dt>>, <<"Liouvillean", 0, dt>>>> \o [k \in 1..n |-> <<"System", k, dt>>]

\* the time steps of the calls made on one callee, chronologically
CallsTo(log, who, k) == SelectSeq(log, LAMBDA c : c[1] = who /\ c[2] = k)

RECURSIVE SumDts(_)
SumDts(cs) == IF cs = <<>> THEN 0 ELSE cs[1][3] + SumDts(Tail(cs))

\* CSCellHack::stream: dt -= ndt, once for every call made on it
CSCellHackStream(h, calls) == [h EXCEPT !.dt = RSub(@, R(SumDts(CallsTo(calls, "System", h.ID))))]

\* Dynamics::stream(dt): the calls made, and what each callee has been told
stream(st, sys, dt) == [log |-> StreamCalls(Len(sys), dt), informed |-> [k \in 1..Len(sys) |-> st.informed[k] + SumDts(CallsTo(StreamCalls(Len(sys), dt), "System", k))], bc |-> st.bc + SumDts(CallsTo(StreamCalls(Len(sys), dt), "BC", 0)), liouvillean |-> st.liouvillean + SumDts(CallsTo(StreamCalls(Len(sys), dt), "Liouvillean", 0)), total |-> st.total + dt, n |-> st.n + 1, last |-> "stream"]

\* the simulation loop: the clock moves on by dt and Dynamics::stream(dt) runs
DynamicsStream ==
  /\ call = NoCall
  /\ streamed.n < MaxStreams
  /\ \E dt \in StreamDts :
       /\ streamed' = stream(streamed, systems, dt)
       /\ hack' = CSCellHackStream(hack, StreamCalls(Len(systems), dt))
       /\ dSysTime' = dSysTime + dt
  /\ UNCHANGED <<cellDimensions, plate, win, particleList, mass, pre, call, retVal, accessLog, lastColl>>
  /\ UNCHANGED <<regVars, testVars>>

\* CSCells::reinitialise(w): the cells rebuilt, none narrower than w
Reinitialised(w) == {cd \in [Dims -> CellSizes] : \A i \in Dims : ~RLt(cd[i], w)}

\* CSCellHack::runEvent: the countdown it leaves
RunEventDt(h, cd, now) == RSub(HaltTime(cd, h), R(now))

\* CSCellHack::runEvent, fired when its countdown has been streamed to zero
RunEvent ==
  /\ call = NoCall
  /\ RIsZero(hack.dt)
  /\ cellDimensions' \in Reinitialised(RMul(Frac(10001, 10000), cellDimensions[minDiam(cellDimensions)]))
  /\ hack' = [hack EXCEPT !.dt = RunEventDt(hack, cellDimensions, dSysTime)]
  /\ streamed' = [streamed EXCEPT !.last = "runEvent", !.log = <<>>]
  /\ UNCHANGED <<regVars, collVars, testVars, plate, win>>

NoStream == [log |-> <<>>, informed |-> <<>>, bc |-> 0, liouvillean |-> 0, total |-> 0, n |-> 0, last |-> "none"]

----------------------------------------------------------------------------
(* CLGLWindow: the simulation thread in simupdateTick, and the handlers of *)
(* the window's own thread, each of which runs to its end.                 *)

\* GLUT_ELAPSED_TIME is followed up to this value
MaxElapsed == 2
\* at most this many tasks wait in _systemQueue
MaxTasks == 1
\* _updateCounter is followed up to this value
MaxUpdates == 2

\* CLGLWindow::CLGLWindow: not ready, paused, no frame lock
NoWindow == [readyFlag |-> FALSE, simrun |-> FALSE, simframelock |-> FALSE, lastFrameTime |-> 0, lastUpdateTime |-> 0, updateCounter |-> 0, elapsed |-> 0, queue |-> 0, pc |-> "idle", ret |-> "none"]

\* CLGLWindow::init: _lastUpdateTime = _lastFrameTime = glutGet(GLUT_ELAPSED_TIME)
init(w) == [w EXCEPT !.readyFlag = TRUE, !.lastFrameTime = w.elapsed, !.lastUpdateTime = w.elapsed]

isReady(w) == w.readyFlag
getLastFrameTime(w) == w.lastFrameTime

\* a window that is never found killed
KilledNever(w) == FALSE
\* if (!isReady()) return false
Killed(w) == ~isReady(w)

\* _simrun && (!_simframelock || (_lastUpdateTime != getLastFrameTime()))
Unblocked(w) == w.simrun /\ (~w.simframelock \/ w.lastUpdateTime # getLastFrameTime(w))

\* a step of the window alone
Window(w) == win' = w /\ UNCHANGED <<regVars, collVars, testVars, hack, cellDimensions, streamed, plate>>

\* simupdateTick is entered: ++_updateCounter
SimupdateTick ==
  /\ win.pc = "idle" /\ win.updateCounter < MaxUpdates
  /\ Window([win EXCEPT !.updateCounter = @ + 1, !.pc = "drain", !.ret = "none"])

\* _systemQueue->drainQueue()
DrainQueue == win.pc = "drain" /\ Window([win EXCEPT !.queue = 0, !.pc = "test"])

\* the test that leaves the loop
TestBlock == win.pc = "test" /\ Window([win EXCEPT !.pc = IF Unblocked(win) THEN "redraw" ELSE "ready"])

\* the test that gives up a killed window
TestReady == win.pc = "ready" /\ Window(IF Killed(win) THEN [win EXCEPT !.pc = "idle", !.ret = "false"] ELSE [win EXCEPT !.pc = "sleep"])

\* nanosleep of 1 ms, and the loop starts again
Sleep == win.pc = "sleep" /\ Window([win EXCEPT !.pc = "drain"])

\* if (_lastUpdateTime == getLastFrameTime()) return false
TestRedraw == win.pc = "redraw" /\ Window(IF win.lastUpdateTime = getLastFrameTime(win) THEN [win EXCEPT !.pc = "idle", !.ret = "false"] ELSE [win EXCEPT !.pc = "record"])

\* _lastUpdateTime = getLastFrameTime(); return true
Record == win.pc = "record" /\ Window([win EXCEPT !.lastUpdateTime = getLastFrameTime(win), !.pc = "idle", !.ret = "true"])

\* the steps of the simulation thread inside simupdateTick
SimThread == DrainQueue \/ TestBlock \/ TestReady \/ Sleep \/ TestRedraw \/ Record

\* glutGet(GLUT_ELAPSED_TIME) moves on
Elapse == win.elapsed < MaxElapsed /\ Window([win EXCEPT !.elapsed = @ + 1])

\* CLGLWindow::CallBackDisplayFunc: _lastFrameTime = _currFrameTime
CallBackDisplayFunc == win.readyFlag /\ Window([win EXCEPT !.lastFrameTime = win.elapsed])

\* CLGLWindow::GTKTick: _updateCounter = 0
GTKTick == win.readyFlag /\ win.updateCounter > 0 /\ Window([win EXCEPT !.updateCounter = 0])

\* CLGLWindow::runCallback: _simrun = togButton->get_active()
RunCallback == win.readyFlag /\ Window([win EXCEPT !.simrun = ~@])

\* CLGLWindow::simFramelockControlCallback
SimFramelockControlCallback == win.readyFlag /\ Window([win EXCEPT !.simframelock = ~@])

\* a task is queued for the simulation thread
QueueTask == win.readyFlag /\ win.queue < MaxTasks /\ Window([win EXCEPT !.queue = @ + 1])

\* CLGLWindow::deinit: _readyFlag = false, the timeouts and the GTK instance go
Deinit == win.readyFlag /\ Window([win EXCEPT !.readyFlag = FALSE])

PlantIdle ==
  /\ hack = [dt |-> R(0), growthRate |-> R(1), maxOrigDiam |-> R(1), ID |-> 0]
  /\ cellDimensions = [i \in Dims |-> R(2)]
  /\ streamed = NoStream
  /\ plate = NoPlate

SysIdle == PlantIdle /\ win = NoWindow

\* a window that has been initialised, beside an idle simulation
InitWindow == RegReady /\ CollIdle /\ TestIdle /\ PlantIdle /\ win = init(NoWindow)

NextWindow ==
  \/ SimupdateTick
  \/ SimThread
  \/ Elapse
  \/ CallBackDisplayFunc
  \/ GTKTick
  \/ RunCallback
  \/ SimFramelockControlCallback
  \/ QueueTask
  \/ Deinit

\* the simulation thread is scheduled again and again
SpecWindow == InitWindow /\ [][NextWindow]_vars /\ WF_vars(SimThread)

\* a running simulation with a compression hack among its Systems
InitSystems ==
  /\ status = RUNNING
  /\ species = <<>> /\ interactions = <<>> /\ globals = <<>>
  /\ locals = <<>> /\ topology = <<>>
  /\ systems \in RunningSystemSeqs
  /\ err = "" /\ lastOp = "run" /\ initLog = <<>>
  /\ N = Cardinality(PIDs)
  /\ CollIdle /\ TestIdle
  /\ cellDimensions \in [Dims -> {R(2), R(3)}]
  /\ \E gr \in GrowthRates, diam \in MaxOrigDiams, id \in 1..Len(systems) :
       /\ systems[id] = CompressionHack
       /\ hack = CSCellHack(cellDimensions, gr, diam, id)
  /\ streamed = [NoStream EXCEPT !.informed = [k \in 1..Len(systems) |-> 0]]
  /\ plate = NoPlate
  /\ win = NoWindow

----------------------------------------------------------------------------
(* The specifications: the registry's life cycle, and the responses.       *)

Init == InitReg /\ CollIdle /\ TestIdle /\ SysIdle

Next ==
  \/ SimConfigure
  \/ AddSpecies
  \/ AddInteraction
  \/ AddGlobal
  \/ AddLocal
  \/ AddSystem
  \/ AddStructure
  \/ AddSystemTicker
  \/ SimInitialise
  \/ SimRun

Spec == Init /\ [][Next]_vars

InitResponses == RegReady /\ InitColl /\ TestIdle /\ SysIdle

NextResponses ==
  \/ AdvanceTime
  \/ RunSmoothSpheresColl
  \/ RunDSMCSpheresRun
  \/ RunWallCollision
  \/ RunParallelCubeColl
  \/ RunSphereWellEvent
  \/ RunMultibdyCollision
  \/ RunMultibdyWellEvent
  \/ RunSphereWallCollision
  \/ RunCylinderWallCollision
  \/ RunRandomGaussianEvent
  \/ RunAndersenWallCollision
  \/ RunOscilatingPlate

SpecResponses == InitResponses /\ [][NextResponses]_vars

InitTests == RegReady /\ InitKinematics /\ SysIdle

NextTests ==
  \/ TestSphereSphereInRoot
  \/ TestSphereSphereOutRoot
  \/ TestCubeCubeInRoot
  \/ TestDSMCSpheresTest
  \/ StreamParticle
  \/ StreamParticleBack

SpecTests == InitTests /\ [][NextTests]_vars

\* a registry under configuration, before any lookup
InitLookups ==
  /\ status = CONFIGURING
  /\ interactions \in InteractionSeqs
  /\ \E sps \in SpeciesSeqs : species = SpeciesAdded(interactions, sps)
  /\ globals \in PluginSeqs /\ locals \in PluginSeqs /\ topology \in PluginSeqs
  /\ systems \in SystemSeqs
  /\ err = "" /\ lastOp = "configure" /\ initLog = <<>>
  /\ N = Cardinality(PIDs)
  /\ CollIdle /\ TestIdle /\ SysIdle

NextLookups ==
  \/ GetTopology
  \/ GetSpeciesOf
  \/ GetSpecies
  \/ GetSystem
  \/ GetGlobal
  \/ GetLocal
  \/ GetInteraction
  \/ GetInteractionOf

SpecLookups == InitLookups /\ [][NextLookups]_vars

NextSystems ==
  \/ DynamicsStream
  \/ RunEvent

SpecSystems == InitSystems /\ [][NextSystems]_vars

----------------------------------------------------------------------------
(* The registry: properties of Dynamics::add* and Dynamics::initialise.    *)

AddOps == {"addSpecies", "addInteraction", "addGlobal", "addLocal",
           "addSystem", "addStructure", "addSystemTicker"}

\* C1: a call of addSpecies made once the status is INITIALISED or later
\* throws, and leaves every collection of the registry as it was.
C1_AddSpeciesRejected ==
  [][(status >= INITIALISED /\ lastOp' = "addSpecies")
       => (err' # "" /\ Collections' = Collections)]_vars

\* a rejected addSpecies on a registry that holds Species already
C1_Witness ==
  /\ status >= INITIALISED
  /\ lastOp = "addSpecies"
  /\ err = "Cannot add species after simulation initialisation"
  /\ species # <<>>

\* C2: every add operation (addSpecies, addInteraction, addGlobal, addLocal,
\* addSystem, addStructure, addSystemTicker) called once the status is
\* INITIALISED or later throws and adds nothing to any collection.
C2_EveryAddRejected ==
  [][(status >= INITIALISED /\ lastOp' \in AddOps)
       => (err' # "" /\ Sizes' = Sizes)]_vars

\* the Species, in insertion order, that own particle part
OwnersOf(part) == {k \in 1..Len(species) : isSpecies(species[k], part)}

\* the Species ranges partition the particles 0..N-1 exactly
SpeciesPartition ==
  /\ \A part \in 0..(N - 1) : Cardinality(OwnersOf(part)) = 1
  /\ TotCount(species) = N

\* C3: initialise() throws when some particle belongs to no Species, when
\* some particle belongs to more than one Species, and when the Species
\* counts do not sum to N; it passes the validation exactly when the Species
\* partition the particles.
C3_InitialiseValidatesPartition ==
  lastOp = "initialise" =>
    /\ (\E part \in 0..(N - 1) : Cardinality(OwnersOf(part)) = 0) => err # ""
    /\ (\E part \in 0..(N - 1) : Cardinality(OwnersOf(part)) > 1) => err # ""
    /\ TotCount(species) # N => err # ""
    /\ err = "" <=> SpeciesPartition

\* initialise() has thrown on Species that cover every particle, one of them
\* twice
C3_Witness ==
  /\ lastOp = "initialise"
  /\ err # ""
  /\ \A part \in 0..(N - 1) : Cardinality(OwnersOf(part)) >= 1
  /\ \E part \in 0..(N - 1) : Cardinality(OwnersOf(part)) > 1

\* the place of each collection in the order of initialise()
KindRank(kind) ==
  CASE kind = "Species" -> 1
    [] kind = "Interaction" -> 2
    [] kind = "Local" -> 3
    [] kind = "Global" -> 4
    [] kind = "System" -> 5

KindColl(kind) ==
  CASE kind = "Species" -> species
    [] kind = "Interaction" -> interactions
    [] kind = "Local" -> locals
    [] kind = "Global" -> globals
    [] kind = "System" -> systems

InitKinds == {"Species", "Interaction", "Local", "Global", "System"}

\* the places of initLog that are initialise() calls on owned objects
OwnedCalls == {i \in DOMAIN initLog : initLog[i].kind \in InitKinds}

\* C4: a run of initialise() that returns has initialised the collections in
\* the order Species, Interactions, Locals, Globals, Systems, every object of
\* them exactly once, and the objects of one collection in insertion order.
C4_InitialiseOrder ==
  (lastOp = "initialise" /\ err = "") =>
    /\ \A i, j \in OwnedCalls :
         i < j =>
           \/ KindRank(initLog[i].kind) < KindRank(initLog[j].kind)
           \/ /\ initLog[i].kind = initLog[j].kind
              /\ initLog[i].idx < initLog[j].idx
    /\ \A kind \in InitKinds :
         \A k \in 1..Len(KindColl(kind)) :
           Cardinality({i \in OwnedCalls : /\ initLog[i].kind = kind
                                           /\ initLog[i].idx = k}) = 1
    /\ \A i \in OwnedCalls :
         initLog[i].idx \in 1..Len(KindColl(initLog[i].kind))

\* initialise() has returned on a registry holding Species, a Local and a
\* Global
C4_Witness ==
  /\ lastOp = "initialise"
  /\ err = ""
  /\ locals # <<>>
  /\ globals # <<>>

----------------------------------------------------------------------------
(* The responses: properties of the records and velocities they leave.     *)

\* the pair a two-particle response was called on, and what became of it
Id1 == call.ids[1]
Id2 == call.ids[2]
Mass1 == R(mass[Id1])
Mass2 == R(mass[Id2])
VelOld1 == pre[Id1].vel
VelOld2 == pre[Id2].vel
VelNew1 == particleList[Id1].vel
VelNew2 == particleList[Id2].vel
\* the separation and relative velocity at the time of the call
RijNow == VSub(particleList[Id1].pos, particleList[Id2].pos)
VijOld == VSub(VelOld1, VelOld2)
VijNew == VSub(VelNew1, VelNew2)

IsSmoothSpheresColl == call.op = "SmoothSpheresColl"
BothFinite == mass[Id1] # 0 /\ mass[Id2] # 0

Momentum(m1, v1, m2, v2) == VAdd(VScale(v1, m1), VScale(v2, m2))
KineticEnergy(m1, v1, m2, v2) ==
  RAdd(RMul(Frac(1, 2), RMul(m1, Nrm2(v1))),
       RMul(Frac(1, 2), RMul(m2, Nrm2(v2))))

\* C5: SmoothSpheresColl with e = 1 on two particles of finite mass leaves
\* the pair's total momentum and total kinetic energy as they were, and the
\* two recorded kinetic-energy changes sum to zero.
C5_ElasticConservation ==
  (IsSmoothSpheresColl /\ call.e = R(1) /\ BothFinite) =>
    /\ VEq(Momentum(Mass1, VelNew1, Mass2, VelNew2),
           Momentum(Mass1, VelOld1, Mass2, VelOld2))
    /\ REq(KineticEnergy(Mass1, VelNew1, Mass2, VelNew2),
           KineticEnergy(Mass1, VelOld1, Mass2, VelOld2))
    /\ RIsZero(RAdd(retVal.parts[1].deltaKE, retVal.parts[2].deltaKE))

\* an elastic collision of unequal finite masses that changed both velocities
C5_Witness ==
  /\ IsSmoothSpheresColl /\ call.e = R(1) /\ BothFinite
  /\ mass[Id1] # mass[Id2]
  /\ VelNew1 # VelOld1 /\ VelNew2 # VelOld2

\* C6: SmoothSpheresColl with any e on two particles of finite mass leaves
\* the relative velocity along rij at minus e times what it was.
C6_Restitution ==
  (IsSmoothSpheresColl /\ BothFinite) =>
    REq(Dot(RijNow, VijNew), RNeg(RMul(call.e, Dot(RijNow, VijOld))))

\* a collision with e = 1/2 of approaching particles
C6_Witness ==
  /\ IsSmoothSpheresColl /\ BothFinite
  /\ call.e = Frac(1, 2)
  /\ RLt(Dot(RijNow, VijOld), R(0))

\* m * rij * ((1 + e) * (rij . vij) / |rij|^2)
ReflectionImpulse(m) ==
  VScale(RijNow, RMul(m, RDiv(RMul(RAdd(R(1), call.e), Dot(RijNow, VijOld)),
                              Nrm2(RijNow))))

\* C7: when exactly one particle of SmoothSpheresColl has the infinite mass
\* (mass 0), its velocity is left as it was and the other particle receives
\* the impulse dP = m * rij * (1 + e)(rij . vij) / |rij|^2 of its own mass m,
\* whichever of the two is the infinite one.
C7_OneInfiniteMass ==
  /\ (IsSmoothSpheresColl /\ mass[Id1] = 0 /\ mass[Id2] # 0) =>
       /\ VelNew1 = VelOld1
       /\ VEq(retVal.dP, ReflectionImpulse(Mass2))
       /\ VEq(VelNew2, VAdd(VelOld2, VDivS(ReflectionImpulse(Mass2), Mass2)))
  /\ (IsSmoothSpheresColl /\ mass[Id1] # 0 /\ mass[Id2] = 0) =>
       /\ VelNew2 = VelOld2
       /\ VEq(retVal.dP, ReflectionImpulse(Mass1))
       /\ VEq(VelNew1, VSub(VelOld1, VDivS(ReflectionImpulse(Mass1), Mass1)))

\* particle 1 is the infinite one, particle 2 of mass 2 has been reflected
C7_Witness ==
  /\ IsSmoothSpheresColl
  /\ mass[Id1] = 0 /\ mass[Id2] = 2
  /\ VelNew2 # VelOld2

BothInfinite == mass[Id1] = 0 /\ mass[Id2] = 0

\* C8 as stated: when both particles of SmoothSpheresColl have the infinite
\* mass, the dP of the record is zero and both velocities are left as they
\* were, with no division by zero.
C8_VelocitiesUntouched ==
  (IsSmoothSpheresColl /\ BothInfinite) =>
    /\ VEq(retVal.dP, VZero)
    /\ VelNew1 = VelOld1 /\ VelNew2 = VelOld2
    /\ VFinite(VelNew1) /\ VFinite(VelNew2)

\* rij * ((1 + e) * (1/2) * (rij . vij) / |rij|^2): the impulse of two unit
\* masses
UnitMassImpulse ==
  VScale(RijNow, RDiv(RMul(RMul(RAdd(R(1), call.e), Frac(1, 2)),
                           Dot(RijNow, VijOld)),
                      Nrm2(RijNow)))

\* C8: when both particles of SmoothSpheresColl have the infinite mass, the
\* dP of the record is zero and nothing is divided by zero, but the
\* velocities are changed as in a collision of two unit masses: particle 1
\* loses and particle 2 gains rij * (1 + e)(rij . vij) / (2 |rij|^2).
C8_CollidedAsUnitMasses ==
  (IsSmoothSpheresColl /\ BothInfinite) =>
    /\ VEq(retVal.dP, VZero)
    /\ VFinite(VelNew1) /\ VFinite(VelNew2)
    /\ IsFinite(retVal.parts[1].deltaKE) /\ IsFinite(retVal.parts[2].deltaKE)
    /\ VEq(VelNew1, VSub(VelOld1, UnitMassImpulse))
    /\ VEq(VelNew2, VAdd(VelOld2, UnitMassImpulse))

\* two infinite masses have collided, and their velocities have changed
C8_Witness ==
  /\ IsSmoothSpheresColl /\ BothInfinite
  /\ VelNew1 # VelOld1 /\ VelNew2 # VelOld2

\* the responses whose records carry kinetic-energy changes
KERoutines == {"runWallCollision", "SmoothSpheresColl", "DSMCSpheresRun",
               "parallelCubeColl", "SphereWellEvent", "multibdyCollision",
               "multibdyWellEvent"}

\* (1/2) * m * (|v_new|^2 - |v_old|^2) of the particle of a record entry:
\* v_old its velocity before the call, v_new its velocity now
ExpectedDeltaKE(part, m) ==
  RMul(Frac(1, 2),
       RMul(m, RSub(Nrm2(particleList[part.id].vel), Nrm2(pre[part.id].vel))))

\* the recorded value is the expected one (not a number where that is not)
SameDouble(a, b) == IF IsNaN(b) THEN IsNaN(a) ELSE REq(a, b)

ResponseMass(id) ==
  IF IsSmoothSpheresColl /\ BothInfinite THEN R(1) ELSE R(mass[id])

UpdatedBefore(j, id) ==
  \E i \in 1..(j - 1) :
    accessLog[i].kind = "update" /\ accessLog[i].id = id

\* C10: every response brings each particle it is called on up to the current
\* time before it snapshots, reads or writes that particle's velocity: each
\* access is made to a particle whose last update is the current time, after
\* an update of that particle in the same call.
C10_UpdateBeforeAccess ==
  call.op # "none" =>
    /\ \A n \in DOMAIN call.ids : UpdatedBefore(Len(accessLog) + 1, call.ids[n])
    /\ \A j \in DOMAIN accessLog :
         /\ accessLog[j].upToDate
         /\ accessLog[j].kind # "update" => UpdatedBefore(j, accessLog[j].id)

\* a response has run on a particle that was behind the clock, and has
\* written its velocity
C10_Witness ==
  /\ call.op # "none"
  /\ \E j \in DOMAIN accessLog :
       /\ accessLog[j].kind = "write"
       /\ pre[accessLog[j].id].lastUpdate < particleList[accessLog[j].id].lastUpdate

\* the inputs of the last event test, recomputed from the pair it was given
PreRvdot == Dot(test.pre.rij, test.pre.vij)
PreR2 == Nrm2(test.pre.rij)
PreV2 == Nrm2(test.pre.vij)
Discriminant == RSub(RMul(PreRvdot, PreRvdot), RMul(PreV2, RSub(PreR2, test.arg)))

\* C11: SphereSphereInRoot returns true exactly when rvdot < 0 and the
\* discriminant rvdot^2 - v2 (r2 - d2) is positive: it returns false
\* whenever rvdot >= 0 and whenever the discriminant is <= 0.
C11_TrueIffApproachingAndReal ==
  test.op = "SphereSphereInRoot" =>
    (test.ret <=> (RLt(PreRvdot, R(0)) /\ RLt(R(0), Discriminant)))

\* an approaching pair that misses: rvdot < 0, discriminant <= 0, false
C11_Witness ==
  /\ test.op = "SphereSphereInRoot"
  /\ RLt(PreRvdot, R(0))
  /\ ~RLt(R(0), Discriminant)
  /\ ~test.ret

\* the pair of the last test, dt after the test was called
PreAfter(dt) == VAdd(test.pre.rij, VScale(test.pre.vij, dt))
\* the two times at which the pair is at distance d: the roots of
\* v2 t^2 + 2 rvdot t + (r2 - d2) = 0
LargerRoot == RDiv(RSub(RSqrt(Discriminant), PreRvdot), PreV2)
ReturnedTrue == test.op = "SphereSphereInRoot" /\ test.ret
SpecScenarioPair ==
  /\ test.pre.rij = <<Frac(-6, 5), R(0), R(0)>>
  /\ test.pre.vij = VInt(2, 0, 0)
  /\ test.arg = R(1)

\* C12 as stated: when SphereSphereInRoot returns true, dt is the smaller
\* positive root of |rij + dt vij|^2 = d^2: dt is positive, the pair is at
\* distance d after dt and at no earlier non-negative time, and the spec
\* scenario gives dt = 0.1.
C12_SmallerPositiveRoot ==
  ReturnedTrue =>
    /\ RLt(R(0), dat.dt)
    /\ REq(Nrm2(PreAfter(dat.dt)), test.arg)
    /\ ~(~RLt(LargerRoot, R(0)) /\ RLt(LargerRoot, dat.dt))
    /\ SpecScenarioPair => dat.dt = Frac(1, 10)

\* C12 amended: when SphereSphereInRoot returns true, dt is the smaller
\* root of |rij + dt vij|^2 = d^2, of the sign of r2 - d2: positive for a
\* pair that starts apart, zero for one in contact and negative for one
\* that overlaps; the pair is at distance d after dt, and the spec scenario
\* gives dt = 0.1.
C12_SmallerRoot ==
  ReturnedTrue =>
    /\ REq(Nrm2(PreAfter(dat.dt)), test.arg)
    /\ ~RLt(LargerRoot, dat.dt)
    /\ RLt(R(0), dat.dt) <=> RLt(test.arg, PreR2)
    /\ RLt(dat.dt, R(0)) <=> RLt(PreR2, test.arg)
    /\ SpecScenarioPair => dat.dt = Frac(1, 10)

\* the spec scenario, on which the call has returned true with dt = 0.1
C12_Witness == ReturnedTrue /\ SpecScenarioPair /\ dat.dt = Frac(1, 10)

\* two vectors along one line: every 2x2 minor of the pair is zero
Parallel(u, v) == \A i, j \in Dims : REq(RMul(u[i], v[j]), RMul(u[j], v[i]))
HeadOn == Parallel(VelOld1, RijNow) /\ Parallel(VelOld2, RijNow)
SpecScenarioCollision ==
  /\ Id1 = 0 /\ Id2 = 1 /\ mass[0] = 1 /\ mass[1] = 1
  /\ particleList[0].pos = <<Frac(-3, 5), R(0), R(0)>>
  /\ particleList[1].pos = <<Frac(3, 5), R(0), R(0)>>
  /\ VelOld1 = VInt(1, 0, 0) /\ VelOld2 = VInt(-1, 0, 0)

\* C13: SmoothSpheresColl with e = 1 on two particles of equal mass whose
\* velocities are parallel to rij exchanges the two velocities; in the spec
\* scenario the velocities (1,0,0) and (-1,0,0) become (-1,0,0) and (1,0,0).
C13_HeadOnExchange ==
  (IsSmoothSpheresColl /\ call.e = R(1) /\ mass[Id1] = mass[Id2] /\ HeadOn) =>
    /\ VEq(VelNew1, VelOld2) /\ VEq(VelNew2, VelOld1)
    /\ SpecScenarioCollision =>
         VelNew1 = VInt(-1, 0, 0) /\ VelNew2 = VInt(1, 0, 0)

\* the spec scenario after the elastic collision, the velocities exchanged
C13_Witness ==
  /\ IsSmoothSpheresColl /\ call.e = R(1) /\ SpecScenarioCollision
  /\ VelNew1 = VInt(-1, 0, 0) /\ VelNew2 = VInt(1, 0, 0)

\* C14: CubeCubeInRoot returns false whenever rij * vij >= 0 on the axis of
\* the largest |rij| component (the first such axis, where several tie).
C14_LargestAxisNotShrinking ==
  (/\ test.op = "CubeCubeInRoot"
   /\ ~RLt(RMul(test.pre.rij[largedim(test.pre.rij)],
                test.pre.vij[largedim(test.pre.rij)]), R(0))) =>
    ~test.ret /\ dat = test.pre

\* a pair receding along its largest axis, for which the call returned false
C14_Witness ==
  /\ test.op = "CubeCubeInRoot"
  /\ RLt(R(0), RMul(test.pre.rij[largedim(test.pre.rij)],
                    test.pre.vij[largedim(test.pre.rij)]))
  /\ ~test.ret

\* the well event called, its deltaKE, and mu, R2 and sqrtArg recomputed
\* from the masses and from the rij and rvdot of the returned record
IsWellEvent == call.op \in {"SphereWellEvent", "multibdyWellEvent"}
WellDeltaKE == IF call.op = "SphereWellEvent" THEN call.aux ELSE call.aux[2]
WellMass1 == IF call.op = "SphereWellEvent" THEN Mass1 ELSE StructMass(mass, call.aux[1][1])
WellMass2 == IF call.op = "SphereWellEvent" THEN Mass2 ELSE StructMass(mass, call.aux[1][2])
WellMu == RDiv(RMul(WellMass1, WellMass2), RAdd(WellMass1, WellMass2))
WellR2 == Nrm2(retVal.rij)
WellArg == RAdd(RMul(retVal.rvdot, retVal.rvdot), RDiv(RMul(RMul(R(2), WellR2), WellDeltaKE), WellMu))
CannotEscape == RLt(WellDeltaKE, R(0)) /\ RLt(WellArg, R(0))
BounceImpulse == VDivS(VScale(VScale(VScale(retVal.rij, R(2)), WellMu), retVal.rvdot), WellR2)

\* the kinetic energy of the particles of the call, with velocities vel
RECURSIVE KEOfFirst(_, _)
KEOfFirst(pl, n) == IF n = 0 THEN R(0) ELSE RAdd(KEOfFirst(pl, n - 1), RMul(Frac(1, 2), RMul(R(mass[call.ids[n]]), Nrm2(pl[call.ids[n]].vel))))
KEBefore == KEOfFirst(pre, Len(call.ids))
KEAfter == KEOfFirst(particleList, Len(call.ids))
AllMassesFinite == \A n \in 1..Len(call.ids) : mass[call.ids[n]] # 0

\* the tags of a well event, and the impulse of a BOUNCE
WellTagged ==
  /\ retVal.type = "BOUNCE" <=> CannotEscape
  /\ retVal.type = "BOUNCE" => retVal.dP = BounceImpulse
  /\ (~CannotEscape /\ RLt(WellDeltaKE, R(0))) => retVal.type = "WELL_KEDOWN"
  /\ RLt(R(0), WellDeltaKE) => retVal.type = "WELL_KEUP"

\* C15: SphereWellEvent and multibdyWellEvent tag the event BOUNCE exactly
\* when deltaKE < 0 and rvdot^2 + 2 R2 deltaKE / mu < 0, and then apply the
\* impulse rij * 2 mu rvdot / R2, which leaves the kinetic energy of the pair
\* unchanged; otherwise deltaKE < 0 is tagged WELL_KEDOWN and deltaKE > 0
\* WELL_KEUP.
C15_BounceWhenCannotEscape ==
  IsWellEvent =>
    /\ WellTagged
    /\ retVal.type = "BOUNCE" => REq(KEAfter, KEBefore)

\* the same, the kinetic energy compared only where no mass is the
\* infinite-mass sentinel 0
C15_FiniteMasses ==
  IsWellEvent =>
    /\ WellTagged
    /\ (retVal.type = "BOUNCE" /\ AllMassesFinite) => REq(KEAfter, KEBefore)

\* a BOUNCE of two finite masses that changed the velocities
C15_Witness ==
  /\ IsWellEvent /\ retVal.type = "BOUNCE" /\ AllMassesFinite
  /\ particleList # pre /\ REq(KEAfter, KEBefore)

VelocitiesKept == \A n \in 1..Len(call.ids) : particleList[call.ids[n]].vel = pre[call.ids[n]].vel

\* C16: in SphereWellEvent and in multibdyWellEvent a deltaKE of 0 is a
\* NON_EVENT: the impulse is zero and no velocity changes, whatever rvdot is.
C16_ZeroDeltaKEIsNonEvent ==
  (IsWellEvent /\ REq(WellDeltaKE, R(0))) =>
    retVal.type = "NON_EVENT" /\ retVal.dP = VZero /\ VelocitiesKept

\* what the two routines share on a deltaKE of 0: between finite masses
\* SphereWellEvent returns a NON_EVENT that changes nothing, and
\* multibdyWellEvent tags the event WELL_KEUP
C16_SphereWellOnly ==
  (IsWellEvent /\ REq(WellDeltaKE, R(0)) /\ AllMassesFinite) =>
    IF call.op = "SphereWellEvent"
    THEN retVal.type = "NON_EVENT" /\ retVal.dP = VZero /\ VelocitiesKept
    ELSE retVal.type = "WELL_KEUP"

\* the last DSMCSpheresTest: rvdot and prob recomputed from the particles
IsDSMCTest == test.op = "DSMCSpheresTest"
DSMCRvdotOf == Dot(test.pre.rij, VSub(particleList[test.aux.ids[1]].vel, particleList[test.aux.ids[2]].vel))
DSMCProb == RMul(test.arg, RNeg(DSMCRvdotOf))
DSMCTestOutcome ==
  IsDSMCTest =>
    IF RLt(R(0), DSMCRvdotOf)
    THEN ~test.ret /\ maxprob = test.aux.maxprob
    ELSE /\ ~RLt(maxprob, DSMCProb)
         /\ test.ret <=> RLt(RMul(test.aux.u, maxprob), DSMCProb)

\* C17: over DSMCSpheresTest calls that share maxprob, maxprob never
\* decreases; a pair with rvdot > 0 is rejected and leaves maxprob as it was;
\* otherwise maxprob is raised to at least prob = factor * (-rvdot) before
\* the comparison, and the pair is accepted exactly when prob > U * maxprob
\* for the raised maxprob, so prob never exceeds the maxprob it is compared
\* against.
C17_SharedMaxprob == [](DSMCTestOutcome) /\ [][~RLt(maxprob', maxprob)]_vars

\* a call that raised maxprob to prob and accepted the pair, after an
\* earlier call had raised it before
C17_Witness ==
  /\ IsDSMCTest /\ test.ret
  /\ RLt(R(1), test.aux.maxprob)
  /\ RLt(test.aux.maxprob, maxprob) /\ maxprob = DSMCProb

\* the particle streamed by the last call of streamParticle
Streamed == call.ids[1]

\* C18: streamParticle changes nothing but the position of the particle,
\* which becomes position + velocity * dt, and never the velocity; streaming
\* over dt and then over -dt returns the particle to the position and the
\* velocity it had.
C18_StreamMovesPositionOnly ==
  /\ call.op = "streamParticle" =>
       /\ particleList[Streamed].vel = pre[Streamed].vel
       /\ particleList[Streamed].lastUpdate = pre[Streamed].lastUpdate
       /\ VEq(particleList[Streamed].pos, VAdd(pre[Streamed].pos, VScale(pre[Streamed].vel, call.e)))
       /\ \A id \in PIDs \ {Streamed} : particleList[id] = pre[id]
  /\ call.op = "streamParticleBack" => particleList = pre

\* a particle that was moved by streaming over dt and is back after -dt
C18_Witness ==
  /\ call.op = "streamParticleBack"
  /\ ~VEq(VScale(pre[Streamed].vel, call.e), VZero)
  /\ particleList[Streamed] = pre[Streamed]

\* the initialise() calls logged for the k-th object of a collection
CallsOn(kind, k) == {i \in DOMAIN initLog : initLog[i].kind = kind /\ initLog[i].idx = k}
\* the k-th inserted object (k counted from 1) was initialised with id k - 1
RunningIds(kind, coll) == \A k \in 1..Len(coll) : \E i \in CallsOn(kind, k) : initLog[i].id = k - 1
Initialised == lastOp = "initialise" /\ err = ""

\* C19 as stated: after initialise(), the k-th inserted object of every
\* owned collection (k counted from 0) has been initialised with id k.
C19_EveryCollectionRunningIds ==
  Initialised =>
    /\ \A kind \in InitKinds : RunningIds(kind, KindColl(kind))
    /\ RunningIds("Topology", topology)

\* C19 amended: after initialise(), the k-th inserted Interaction, Local,
\* Global and System (k counted from 0) has been initialised with id k, and
\* with no other id; a Species is initialised without an id, and no
\* Topology is initialised.
C19_PluginRunningIds ==
  Initialised =>
    /\ \A kind \in InitKinds \ {"Species"} :
         /\ RunningIds(kind, KindColl(kind))
         /\ \A i \in OwnedCalls : initLog[i].kind = kind => initLog[i].id = initLog[i].idx - 1
    /\ \A i \in OwnedCalls : initLog[i].kind = "Species" => initLog[i].id = -1
    /\ \A i \in DOMAIN initLog : initLog[i].kind # "Topology"

\* initialise() has returned on two Interactions, given the ids 0 and 1
C19_Witness ==
  /\ Initialised /\ Len(interactions) = 2
  /\ \E i, j \in OwnedCalls :
       /\ initLog[i].kind = "Interaction" /\ initLog[i].idx = 1 /\ initLog[i].id = 0
       /\ initLog[j].kind = "Interaction" /\ initLog[j].idx = 2 /\ initLog[j].id = 1

\* the last lookup: the collection it scans and the objects that match its key
LookupOps == {"getTopology", "getSpecies(particle)", "getSpecies(name)", "getSystem", "getGlobal", "getLocal", "getInteraction(name)", "getInteraction(p1,p2)"}
Scanned ==
  CASE found.op = "getTopology" -> topology
    [] found.op \in {"getSpecies(particle)", "getSpecies(name)"} -> species
    [] found.op = "getSystem" -> systems
    [] found.op = "getGlobal" -> globals
    [] found.op = "getLocal" -> locals
    [] found.op \in {"getInteraction(name)", "getInteraction(p1,p2)"} -> interactions
Matches(k) ==
  CASE found.op = "getSpecies(particle)" -> found.key \in species[k].range
    [] found.op = "getInteraction(p1,p2)" ->
         /\ \E sp \in 1..Len(species) : found.key[1] \in species[sp].range /\ species[sp].name \in interactions[k].claims
         /\ \E sp \in 1..Len(species) : found.key[2] \in species[sp].range /\ species[sp].name \in interactions[k].claims
    [] OTHER -> Scanned[k].name = found.key
Matching == {k \in 1..Len(Scanned) : Matches(k)}
LookupOutcome ==
  found.op \in LookupOps =>
    IF Matching = {}
    THEN found.idx = 0 /\ err # ""
    ELSE /\ found.idx \in Matching /\ err = ""
         /\ \A k \in Matching : found.idx <= k

\* C20: every lookup of the registry returns the first owned object, in
\* insertion order, that matches the name or the membership predicate; it
\* throws, and returns no object, when none matches; and no lookup changes
\* the registry.
C20_LookupFirstMatchOrThrow ==
  /\ [](LookupOutcome)
  /\ [][lastOp' \in LookupOps => UNCHANGED <<status, species, interactions, globals, locals, systems, topology, initLog, N>>]_vars

\* a lookup by name that returned the first of two objects of that name
C20_Witness ==
  /\ found.op \in LookupOps /\ found.idx = 1 /\ err = ""
  /\ Cardinality(Matching) = 2

NoTwoOfOneName(coll) == \A i, j \in 1..Len(coll) : i # j => coll[i].name # coll[j].name

\* C21: an add of an object whose name an object of the same collection
\* already has fails, so no collection (Systems, Globals, Locals,
\* Interactions, Species, Topology) ever holds two objects of one name.
C21_NoDuplicateNames ==
  /\ NoTwoOfOneName(systems) /\ NoTwoOfOneName(globals) /\ NoTwoOfOneName(locals)
  /\ NoTwoOfOneName(interactions) /\ NoTwoOfOneName(species) /\ NoTwoOfOneName(topology)

\* the one duplicate the code does refuse: a second "SystemTicker" asked for
\* through addSystemTicker
C21_SecondTickerRefused ==
  [][(lastOp' = "addSystemTicker" /\ \E k \in 1..Len(systems) : systems[k].name = "SystemTicker") => (err' # "" /\ systems' = systems)]_vars

\* the crossing times of the pair of the last test along axis i, the entry
\* and the exit of that axis, and the entry and the exit of the cube
IsCubeTest == test.op = "CubeCubeInRoot"
Crossings(i) == {RDiv(RNeg(RAdd(test.pre.rij[i], test.arg)), test.pre.vij[i]), RDiv(RNeg(RSub(test.pre.rij[i], test.arg)), test.pre.vij[i])} \ {NaN}
Earliest(ts) == CHOOSE t \in ts : \A u \in ts : ~RLt(u, t)
Latest(ts) == CHOOSE t \in ts : \A u \in ts : ~RLt(t, u)
CubeEntry == Latest({Earliest(Crossings(i)) : i \in Dims})
CubeExit == Earliest({Latest(Crossings(i)) : i \in Dims})
PassedFastReject == RLt(RMul(test.pre.rij[largedim(test.pre.rij)], test.pre.vij[largedim(test.pre.rij)]), R(0))

\* C22: past its fast reject, CubeCubeInRoot takes on each axis the smaller
\* of -(rij+d)/vij and -(rij-d)/vij as the entry and the larger as the exit,
\* the maximum of the entries as the entry time and the minimum of the exits
\* as the exit time; it returns true, with dt the entry time, exactly when
\* entry < exit, and returns false with dt not written otherwise.
C22_SlabEntryBeforeExit ==
  (IsCubeTest /\ PassedFastReject) =>
    /\ test.ret <=> RLt(CubeEntry, CubeExit)
    /\ test.ret => dat.dt = CubeEntry
    /\ ~test.ret => dat = test.pre

\* a pair that closes along a negative relative velocity and meets later
C22_Witness ==
  /\ IsCubeTest /\ PassedFastReject /\ test.ret
  /\ RLt(R(0), dat.dt) /\ IsFinite(dat.dt)
  /\ \E i \in Dims : RLt(test.pre.vij[i], R(0))

IsOutRootTest == test.op = "SphereSphereOutRoot"
ExitRoot == RDiv(RSub(RSqrt(Discriminant), PreRvdot), PreV2)

\* C23: SphereSphereOutRoot returns false with dt = +infinity whenever the
\* exit root is not a number (the discriminant rvdot^2 - v2 (r2 - d2) is
\* negative, or v2 = 0 gives 0/0); otherwise it returns true with
\* dt = (sqrt(rvdot^2 - v2 (r2 - d2)) - rvdot) / v2; dt is never left a NaN.
C23_ExitRootOrInfinity ==
  IsOutRootTest =>
    /\ ~IsNaN(dat.dt)
    /\ (RLt(Discriminant, R(0)) \/ RIsZero(PreV2)) => (~test.ret /\ dat.dt = HUGE_VAL)
    /\ ~(RLt(Discriminant, R(0)) \/ RIsZero(PreV2)) => (test.ret /\ dat.dt = ExitRoot)

\* a pair at rest relative to each other: 0/0, so false and dt = +infinity
C23_Witness ==
  /\ IsOutRootTest /\ RIsZero(PreV2)
  /\ ~test.ret /\ dat.dt = HUGE_VAL

----------------------------------------------------------------------------
(* Dynamics::stream                                                        *)

StreamedOnce == streamed.last = "stream"
SystemCallsInOrder(dt) == \A k \in 1..Len(systems) : streamed.log[2 + k] = <<"System", k, dt>>

\* C24: a Dynamics::stream(dt) first updates the boundary condition by dt,
\* then streams the Liouvillean by dt, then calls stream(dt) once on every
\* owned System in insertion order; after any sequence of such calls every
\* System has been told a total time equal to the sum of the dt values.
C24_StreamInformsEverySystem ==
  /\ StreamedOnce =>
       \E dt \in StreamDts :
         /\ Len(streamed.log) = 2 + Len(systems)
         /\ streamed.log[1] = <<"BC", 0, dt>>
         /\ streamed.log[2] = <<"Liouvillean", 0, dt>>
         /\ SystemCallsInOrder(dt)
  /\ \A k \in 1..Len(systems) : streamed.informed[k] = streamed.total
  /\ streamed.bc = streamed.total /\ streamed.liouvillean = streamed.total

\* two streams of different dt over three Systems
C24_Witness ==
  /\ StreamedOnce /\ streamed.n = 2 /\ streamed.total = 3
  /\ Len(systems) = 3
  /\ \A k \in 1..3 : streamed.informed[k] = 3

----------------------------------------------------------------------------
(* CSCellHack::runEvent                                                    *)

EventRan == streamed.last = "runEvent"

\* C28: when the compression-hack event fires at its scheduled time (its
\* countdown dt streamed down to 0), runEvent rebuilds the cell list and
\* leaves a strictly positive countdown, so that the event cannot fire again
\* at the same simulation time.
C28_RunEventLeavesPositiveCountdown == EventRan => RLt(R(0), hack.dt)

----------------------------------------------------------------------------
(* multibdyCollision                                                       *)

IsMultibdyCollision == call.op = "multibdyCollision"
Range1 == call.aux[1]
Range2 == call.aux[2]

RECURSIVE SumOver(_, _)
SumOver(f, range) == IF range = <<>> THEN R(0) ELSE RAdd(f[Head(range)], SumOver(f, Tail(range)))

TotalMass(range) == SumOver([id \in PIDs |-> R(mass[id])], range)
\* the time of the call, and the position of a particle at that time
TimeOfCall == particleList[Range1[1]].lastUpdate
PosAtCall(id) == VAdd(pre[id].pos, VScale(pre[id].vel, R(TimeOfCall - pre[id].lastUpdate)))
MassWeightedPos(range) == [i \in Dims |-> RDiv(SumOver([id \in PIDs |-> RMul(R(mass[id]), PosAtCall(id)[i])], range), TotalMass(range))]
MassWeightedVel(range) == [i \in Dims |-> RDiv(SumOver([id \in PIDs |-> RMul(R(mass[id]), pre[id].vel[i])], range), TotalMass(range))]
MomentumOf(pl, range) == [i \in Dims |-> SumOver([id \in PIDs |-> RMul(R(mass[id]), pl[id].vel[i])], range)]

COMrij == VSub(MassWeightedPos(Range1), MassWeightedPos(Range2))
COMvij == VSub(MassWeightedVel(Range1), MassWeightedVel(Range2))
COMmu == RDiv(RMul(TotalMass(Range1), TotalMass(Range2)), RAdd(TotalMass(Range1), TotalMass(Range2)))
\* the impulse of an elastic two-body collision of the two centres of mass
COMdP == VScale(COMrij, RDiv(RMul(RMul(R(2), COMmu), Dot(COMrij, COMvij)), Dot(COMrij, COMrij)))

VelocitiesShifted ==
  /\ \A n \in 1..Len(Range1) : particleList[Range1[n]].vel = VSub(pre[Range1[n]].vel, VDivS(COMdP, TotalMass(Range1)))
  /\ \A n \in 1..Len(Range2) : particleList[Range2[n]].vel = VAdd(pre[Range2[n]].vel, VDivS(COMdP, TotalMass(Range2)))

OneRecordPerMember ==
  /\ Len(retVal.parts) = Len(Range1) + Len(Range2)
  /\ \A n \in 1..Len(retVal.parts) : retVal.parts[n].id = (Range1 \o Range2)[n]

MomentumKept == MomentumOf(particleList, Range1 \o Range2) = MomentumOf(pre, Range1 \o Range2)

\* C25: multibdyCollision changes the velocity of every particle of range1
\* by -dP/M1 and of range2 by +dP/M2 (dP the two-body impulse between the
\* mass-weighted centres of mass), returns one record per member particle,
\* range1's first, and leaves the total momentum of the two ranges unchanged.
C25_MomentumConserved == IsMultibdyCollision => VelocitiesShifted /\ OneRecordPerMember /\ MomentumKept

\* the same on ranges whose total masses are not zero
C25_NonZeroTotalMasses == IsMultibdyCollision /\ ~RIsZero(TotalMass(Range1)) /\ ~RIsZero(TotalMass(Range2)) => VelocitiesShifted /\ OneRecordPerMember /\ MomentumKept

C25_ShiftAndRecords == IsMultibdyCollision => VelocitiesShifted /\ OneRecordPerMember

C25_Witness == IsMultibdyCollision /\ Len(Range1) = 2 /\ ~RIsZero(TotalMass(Range1)) /\ ~RIsZero(TotalMass(Range2)) /\ particleList[Range1[1]].vel # pre[Range1[1]].vel

----------------------------------------------------------------------------
(* parallelCubeColl                                                        *)

IsAlignedCubeColl == call.op = "parallelCubeColl" /\ call.aux = RotI
Cube1 == call.ids[1]
Cube2 == call.ids[2]
CubeTime == particleList[Cube1].lastUpdate
CubePos(id) == VAdd(pre[id].pos, VScale(pre[id].vel, R(CubeTime - pre[id].lastUpdate)))
CubeRij == VSub(CubePos(Cube1), CubePos(Cube2))
\* the axis of the largest |rij| component, the lowest index on ties
ContactAxis == CHOOSE d \in Dims : (\A j \in Dims : ~RLt(RAbs(CubeRij[d]), RAbs(CubeRij[j]))) /\ (\A j \in Dims : j < d => RLt(RAbs(CubeRij[j]), RAbs(CubeRij[d])))
OtherAxesKept == \A i \in Dims \ {ContactAxis} : particleList[Cube1].vel[i] = pre[Cube1].vel[i] /\ particleList[Cube2].vel[i] = pre[Cube2].vel[i]
RelVelOn(pl, i) == RSub(pl[Cube1].vel[i], pl[Cube2].vel[i])
ContactReversed == RelVelOn(particleList, ContactAxis) = RNeg(RMul(call.e, RelVelOn(pre, ContactAxis)))
CubeMassesNonZero == mass[Cube1] # 0 /\ mass[Cube2] # 0
SameAxisAsFastReject == ContactAxis = largedim(CubeRij)

\* C26: parallelCubeColl with an identity rotation takes as contact normal the
\* axis of the largest |rij| component (the lowest index on ties, the axis of
\* CubeCubeInRoot's fast reject) and changes the two velocities only along
\* that axis; for finite non-zero masses the relative velocity on that axis
\* becomes -e times its previous value.
C26_OnlyContactAxisChanges == IsAlignedCubeColl => SameAxisAsFastReject /\ OtherAxesKept /\ (CubeMassesNonZero => ContactReversed)

\* the same for particles of non-zero mass
C26_NonZeroMasses == IsAlignedCubeColl /\ CubeMassesNonZero => SameAxisAsFastReject /\ OtherAxesKept /\ ContactReversed

C26_Witness == IsAlignedCubeColl /\ CubeMassesNonZero /\ ContactAxis = 2 /\ ~RIsZero(RelVelOn(pre, 2)) /\ ~RIsZero(call.e)

----------------------------------------------------------------------------
(* runOscilatingPlate on an invalid root                                   *)

IsPlateCall == call.op = "runOscilatingPlate"
PlatePart == call.ids[1]
InvalidRoot == IsPlateCall /\ ~call.aux[3].test_root
VelocityAsBefore == particleList[PlatePart].vel = pre[PlatePart].vel
PlateAsBefore == plate = NoPlate
BroughtUpToDate == particleList[PlatePart].pos = VAdd(pre[PlatePart].pos, VScale(pre[PlatePart].vel, R(particleList[PlatePart].lastUpdate - pre[PlatePart].lastUpdate)))

\* C27: when runOscilatingPlate is invoked on a particle that fails the
\* plate's root-validity test, the call does not return leaving the
\* particle's velocity and the plate state exactly as they were.
C27_InvalidRootNotDropped == InvalidRoot => ~(VelocityAsBefore /\ PlateAsBefore)

\* C27 as the code has it: on an invalid root no collision is applied; the
\* WALL record returned has a zero kinetic-energy delta, the velocity and the
\* plate's delta and t are as they were, and the particle is up to date.
C27_InvalidRootOnlyReported ==
  InvalidRoot =>
    /\ VelocityAsBefore /\ PlateAsBefore /\ BroughtUpToDate
    /\ retVal.type = "WALL" /\ Len(retVal.parts) = 1
    /\ retVal.parts[1].id = PlatePart /\ retVal.parts[1].deltaKE = R(0)

\* an invalid root on a plate that is not strong, for a moving particle
\* last updated before the call
C27_Witness == InvalidRoot /\ ~call.aux[4] /\ particleList[PlatePart].pos # pre[PlatePart].pos

\* a valid root on such a plate does rewrite delta and t
C27_ValidRootRewrites == IsPlateCall /\ call.aux[3].test_root /\ ~call.aux[4] => plate # NoPlate

----------------------------------------------------------------------------
(* Dynamics::addSpecies, failing                                           *)

AddSpeciesFailed == lastOp' = "addSpecies" /\ err' # ""
AddSpeciesSucceeded == lastOp' = "addSpecies" /\ err' = "" /\ species' # species

\* C29: Dynamics::addSpecies is all-or-nothing: if it fails for any reason,
\* including when no owned Interaction claims the new species, the species
\* list is exactly what it was before the call; when it succeeds the species
\* is appended last, linked to the first Interaction that claims it.
C29_AddSpeciesAllOrNothing == [][AddSpeciesFailed => species' = species]_vars

\* a failure after initialisation does leave the list as it was
C29_RefusedByStatusKeepsList == [][AddSpeciesFailed /\ status >= INITIALISED => species' = species]_vars

\* a success appends the species last, linked to the first claiming Interaction
C29_SuccessAppendsLinked == [][AddSpeciesSucceeded => Len(species') = Len(species) + 1 /\ SubSeq(species', 1, Len(species)) = species /\ species'[Len(species')].intPtr # 0 /\ isInteraction(interactions[species'[Len(species')].intPtr], species'[Len(species')]) /\ \A j \in 1..(species'[Len(species')].intPtr - 1) : ~isInteraction(interactions[j], species'[Len(species')])]_vars

----------------------------------------------------------------------------
(* CLGLWindow::simupdateTick                                               *)

InTick == win.pc # "idle"
InLoop == win.pc \in {"drain", "test", "ready", "sleep"}
Returns == InTick /\ win'.pc = "idle"
ReturnsTrue == Returns /\ win'.ret = "true"
Blocked == ~(win.simrun /\ (~win.simframelock \/ win.lastUpdateTime # win.lastFrameTime))
Enters(at) == win.pc # at /\ win'.pc = at

\* a true return comes after the test that found the simulation running and
\* after a frame newer than _lastUpdateTime, which the return records
TrueOnlyOnNewFrame ==
  /\ [][ReturnsTrue => win.pc = "record" /\ win.lastFrameTime # win.lastUpdateTime /\ win'.lastUpdateTime = win.lastFrameTime]_vars
  /\ [][Enters("record") => win.pc = "redraw" /\ win.lastFrameTime # win.lastUpdateTime]_vars
  /\ [][Enters("redraw") => win.pc = "test" /\ win.simrun /\ ~Blocked]_vars

\* a blocked call on a ready window goes round the loop, draining the queue
BlockedKeepsDraining ==
  /\ [][win.pc = "test" /\ Blocked /\ win'.pc # "test" => win'.pc = "ready"]_vars
  /\ [][win.pc = "ready" /\ win.readyFlag /\ win'.pc # "ready" => win'.pc = "sleep"]_vars
  /\ [][win.pc = "sleep" /\ win'.pc # "sleep" => win'.pc = "drain"]_vars
  /\ [][win.pc = "drain" /\ win'.pc # "drain" => win'.pc = "test" /\ win'.queue = 0]_vars
  /\ [][Returns /\ win.pc = "ready" => ~win.readyFlag /\ win'.ret = "false"]_vars

\* a blocked call on a killed window returns false
KilledReturnsFalse == (InLoop /\ Blocked /\ ~win.readyFlag) ~> (~InTick /\ win.ret = "false")

\* C30: simupdateTick returns true only when the simulation is set running
\* and a frame has been rendered since its previous true return (the last
\* frame time differs from _lastUpdateTime, which it then records); while
\* paused, or frame-locked with no new frame, it keeps draining the task queue
\* without returning; once the window is no longer ready it eventually
\* returns false instead of blocking forever.
C30_TickBlocksUntilFrameOrKill == TrueOnlyOnNewFrame /\ BlockedKeepsDraining /\ KilledReturnsFalse

\* a call that blocked on a paused window after an earlier true return, and
\* returned false once the window was killed
C30_Witness == ~InTick /\ win.ret = "false" /\ ~win.readyFlag /\ ~win.simrun /\ win.lastUpdateTime > 0

====
